---- MODULE Spec2Model ----
(***************************************************************************)
(* Model of the interned IR of cilly::v2 (Assembly, Type, ClassRef, FnSig, *)
(* FieldDesc, MethodRef, CILNode, CILRoot, BasicBlock), of the linker      *)
(* Assembly::translate_* (cilly/src/v2/asm_link.rs), of CILNode::get_type  *)
(* and of the legacy upgrade CILNode::from_v1 (cilly/src/v2/cilnode.rs).   *)
(*                                                                         *)
(* IR values are tuples whose first element is the variant tag, so that    *)
(* TLA+ equality of two values is Rust's structural equality (derived      *)
(* PartialEq).  A handle (XxxIdx) is the 1-based position of the value in  *)
(* the arena that issued it.  Option<T> is <<>> (None) or <<t>> (Some).    *)
(***************************************************************************)
EXTENDS Integers, Sequences, FiniteSets, TLC

VARIABLES dest, last, hist, steps

vars == <<dest, last, hist, steps>>

(***************************************************************************)
(* Bounds                                                                  *)
(***************************************************************************)
\* number of operations performed in one behaviour
MaxSteps == 3
\* depth to which Deep* expands handles (deeper than any source value)
MaxDepth == 8

(***************************************************************************)
(* Option                                                                  *)
(***************************************************************************)
None == <<>>
Some(x) == <<x>>
IsSome(o) == Len(o) = 1
Unwrap(o) == o[1]

(***************************************************************************)
(* Interning arena (BiMap): an ordered sequence of values; the handle of a *)
(* value is its position.                                                  *)
(***************************************************************************)
\* a faulty insert that puts a new value first and so renumbers the arena
InsertFirst(arena, v) ==
    IF \E i \in 1..Len(arena) : arena[i] = v
    THEN [a |-> arena, h |-> CHOOSE i \in 1..Len(arena) : arena[i] = v]
    ELSE [a |-> <<v>> \o arena, h |-> 1]

\* a faulty insert that never looks the value up and always appends
InsertNoDedup(arena, v) ==
    [a |-> Append(arena, v), h |-> Len(arena) + 1]

Insert(arena, v) ==
    IF \E i \in 1..Len(arena) : arena[i] = v
    THEN [a |-> arena, h |-> CHOOSE i \in 1..Len(arena) : arena[i] = v]
    ELSE [a |-> Append(arena, v), h |-> Len(arena) + 1]

Issued(arena, h) == h \in 1..Len(arena)

(***************************************************************************)
(* Assembly: one arena per IR category.                                    *)
(***************************************************************************)
EmptyAsm ==
    [strings |-> <<>>, types |-> <<>>, sigs |-> <<>>, class_refs |-> <<>>,
     fields |-> <<>>, sflds |-> <<>>, mrefs |-> <<>>, nodes |-> <<>>,
     roots |-> <<>>, class_defs |-> {}, method_defs |-> {}, log |-> <<>>,
     calls |-> 0]

\* the outcome of an operation on `self`: the value it returns and the
\* assembly it leaves behind
Ret(asm, val) == [val |-> val, asm |-> asm]

\* `let val = r;` followed by K: r is evaluated first, then the rest of the
\* body runs on the assembly r left behind and on the value r returned
Bind(r, K(_, _)) == IF DOMAIN r = {} THEN r ELSE K(r.asm, r.val)

\* the assembly with arena f replaced by the outcome r of an insertion; the
\* log records, in call order, which arena each alloc_* went to and the
\* handle it returned
Interned(asm, f, r) ==
    Ret([asm EXCEPT ![f] = r.a, !.log = Append(@, <<f, r.h>>)], r.h)

\* the assembly once the operation that was running on it has returned
Settled(asm) == [asm EXCEPT !.log = <<>>, !.calls = 0]

\* one more translate_* call was entered; `calls` counts the calls made on
\* behalf of the operation that is running
Entered(asm) == [asm EXCEPT !.calls = @ + 1]

alloc_string(asm, s) == Interned(asm, "strings", Insert(asm.strings, s))
alloc_type(asm, t) == Interned(asm, "types", Insert(asm.types, t))
alloc_sig(asm, s) == Interned(asm, "sigs", Insert(asm.sigs, s))
alloc_class_ref(asm, c) == Interned(asm, "class_refs", Insert(asm.class_refs, c))
alloc_field(asm, f) == Interned(asm, "fields", Insert(asm.fields, f))
alloc_sfld(asm, f) == Interned(asm, "sflds", Insert(asm.sflds, f))
alloc_methodref(asm, m) == Interned(asm, "mrefs", Insert(asm.mrefs, m))
alloc_node(asm, n) == Interned(asm, "nodes", Insert(asm.nodes, n))
alloc_root(asm, n) == Interned(asm, "roots", Insert(asm.roots, n))

get_string(asm, h) == asm.strings[h]
get_type(asm, h) == asm.types[h]
get_sig(asm, h) == asm.sigs[h]
class_ref(asm, h) == asm.class_refs[h]
get_field(asm, h) == asm.fields[h]
get_static_field(asm, h) == asm.sflds[h]
get_mref(asm, h) == asm.mrefs[h]
get_node(asm, h) == asm.nodes[h]
get_root(asm, h) == asm.roots[h]

(***************************************************************************)
(* Type, ClassRef, FnSig, FieldDesc, StaticFieldDesc, MethodRef            *)
(***************************************************************************)
TPtr(inner) == <<"Ptr", inner>>
TRef(inner) == <<"Ref", inner>>
TInt(int) == <<"Int", int>>
TFloat(float) == <<"Float", float>>
TPlatformString == <<"PlatformString">>
TPlatformChar == <<"PlatformChar">>
TBool == <<"Bool">>
TVoid == <<"Void">>
TPlatformObject == <<"PlatformObject">>
TPlatformGeneric(n, kind) == <<"PlatformGeneric", n, kind>>
TClassRef(cref) == <<"ClassRef", cref>>
TPlatformArray(elem, dims) == <<"PlatformArray", elem, dims>>
TFnPtr(sig) == <<"FnPtr", sig>>

\* ClassRef::new(name, asm, is_valuetype, generics)
ClassRefNew(name, asm, is_valuetype, generics) ==
    <<"ClassRef", name, asm, is_valuetype, generics>>
\* FnSig::new(inputs, output)
FnSigNew(inputs, output) == <<"FnSig", inputs, output>>
\* FieldDesc::new(owner, name, tpe)
FieldDescNew(owner, name, tpe) == <<"FieldDesc", owner, name, tpe>>
\* StaticFieldDesc::new(owner, name, tpe)
StaticFieldDescNew(owner, name, tpe) == <<"StaticFieldDesc", owner, name, tpe>>
\* MethodRef::new(class, name, sig, kind, generics)
MethodRefNew(class, name, sig, kind, generics) ==
    <<"MethodRef", class, name, sig, kind, generics>>

\* Assembly::nptr: the pointer type to an interned inner type
nptr(asm, inner) ==
    Bind(alloc_type(asm, inner), LAMBDA a, h : Ret(a, TPtr(h)))

(***************************************************************************)
(* Assembly::translate_type / translate_class_ref / translate_sig          *)
(* Every operator returns Ret(dst', value): the destination after the      *)
(* allocations the call made, and the value it returns.  A body is the     *)
(* sequence of the `let`s of the source, each a Bind.                      *)
(***************************************************************************)
RECURSIVE translate_type(_, _, _)
RECURSIVE translate_class_ref(_, _, _)
RECURSIVE translate_sig(_, _, _)
RECURSIVE translate_types(_, _, _)

\* .iter().map(|tpe| self.translate_type(source, *tpe)).collect()
translate_types(dst, source, tpes) ==
    IF tpes = <<>> THEN Ret(dst, <<>>)
    ELSE Bind(translate_type(dst, source, Head(tpes)), LAMBDA a1, h :
         Bind(translate_types(a1, source, Tail(tpes)), LAMBDA a2, t :
         Ret(a2, <<h>> \o t)))

\* Type::Ptr(inner) arm
translate_type_Ptr(dst, source, tpe) ==
    Bind(translate_type(dst, source, get_type(source, tpe[2])), LAMBDA a, inner :
    nptr(a, inner))

\* Type::Ref(inner) arm
translate_type_Ref(dst, source, tpe) ==
    Bind(translate_type(dst, source, get_type(source, tpe[2])), LAMBDA a, inner :
    nptr(a, inner))

translate_type(dst, source, tpe) ==
    CASE tpe[1] = "Ptr" -> translate_type_Ptr(Entered(dst), source, tpe)
      [] tpe[1] = "Ref" -> translate_type_Ref(Entered(dst), source, tpe)
      [] tpe[1] \in {"Int", "Float", "PlatformString", "PlatformChar", "Bool",
                     "Void", "PlatformObject", "PlatformGeneric"} -> Ret(Entered(dst), tpe)
      [] tpe[1] = "ClassRef" ->
            Bind(translate_class_ref(Entered(dst), source, tpe[2]), LAMBDA a, c :
            Ret(a, TClassRef(c)))
      [] tpe[1] = "PlatformArray" ->
            Bind(translate_type(Entered(dst), source, get_type(source, tpe[2])), LAMBDA a1, elem :
            Bind(alloc_type(a1, elem), LAMBDA a2, e :
            Ret(a2, TPlatformArray(e, tpe[3]))))
      [] tpe[1] = "FnPtr" ->
            Bind(translate_sig(Entered(dst), source, get_sig(source, tpe[2])), LAMBDA a1, sig :
            Bind(alloc_sig(a1, sig), LAMBDA a2, s :
            Ret(a2, TFnPtr(s))))

\* cref.asm().map(|asm_name| self.alloc_string(source.get_string(asm_name)))
translate_asm_name(dst, source, asm_name) ==
    IF IsSome(asm_name)
    THEN Bind(alloc_string(dst, get_string(source, Unwrap(asm_name))), LAMBDA a, h :
         Ret(a, Some(h)))
    ELSE Ret(dst, None)

\* a faulty body of translate_class_ref that translates the generic
\* arguments before it interns the names
translate_class_ref_of_generics_first(dst, source, cref) ==
    Bind(translate_types(dst, source, cref[5]), LAMBDA a1, generics :
    Bind(alloc_string(a1, get_string(source, cref[2])), LAMBDA a2, name :
    Bind(translate_asm_name(a2, source, cref[3]), LAMBDA a3, asm :
    alloc_class_ref(a3, ClassRefNew(name, asm, cref[4], generics)))))

\* the body of translate_class_ref once cref is read from the source
translate_class_ref_of(dst, source, cref) ==
    Bind(alloc_string(dst, get_string(source, cref[2])), LAMBDA a1, name :
    Bind(translate_asm_name(a1, source, cref[3]), LAMBDA a2, asm :
    Bind(translate_types(a2, source, cref[5]), LAMBDA a3, generics :
    alloc_class_ref(a3, ClassRefNew(name, asm, cref[4], generics)))))

translate_class_ref(dst, source, cref_idx) ==
    translate_class_ref_of(Entered(dst), source, class_ref(source, cref_idx))

translate_sig(dst, source, sig) ==
    Bind(translate_types(Entered(dst), source, sig[2]), LAMBDA a1, inputs :
    Bind(translate_type(a1, source, sig[3]), LAMBDA a2, output :
    Ret(a2, FnSigNew(inputs, output))))

(***************************************************************************)
(* Assembly::translate_field / translate_static_field / translate_method_ref*)
(***************************************************************************)
translate_field(dst, source, field) ==
    Bind(alloc_string(Entered(dst), get_string(source, field[3])), LAMBDA a1, name :
    Bind(alloc_class_ref(a1, class_ref(source, field[2])), LAMBDA a2, owner :
    Bind(translate_type(a2, source, field[4]), LAMBDA a3, tpe :
    Ret(a3, FieldDescNew(owner, name, tpe)))))

translate_static_field(dst, source, field) ==
    Bind(alloc_string(Entered(dst), get_string(source, field[3])), LAMBDA a1, name :
    Bind(alloc_class_ref(a1, class_ref(source, field[2])), LAMBDA a2, owner :
    Bind(translate_type(a2, source, field[4]), LAMBDA a3, tpe :
    Ret(a3, StaticFieldDescNew(owner, name, tpe)))))

translate_method_ref(dst, source, method_ref) ==
    Bind(alloc_class_ref(Entered(dst), class_ref(source, method_ref[2])), LAMBDA a1, class :
    Bind(alloc_string(a1, get_string(source, method_ref[3])), LAMBDA a2, name :
    Bind(translate_sig(a2, source, get_sig(source, method_ref[4])), LAMBDA a3, sig :
    Bind(alloc_sig(a3, sig), LAMBDA a4, s :
    Bind(translate_types(a4, source, method_ref[6]), LAMBDA a5, generics :
    Ret(a5, MethodRefNew(class, name, s, method_ref[5], generics)))))))

(***************************************************************************)
(* CILNode and Assembly::translate_node                                    *)
(***************************************************************************)
NConst(cst) == <<"Const", cst>>
NBinOp(a, b, op) == <<"BinOp", a, b, op>>
NUnOp(a, op) == <<"UnOp", a, op>>
NLdLoc(n) == <<"LdLoc", n>>
NLdLocA(n) == <<"LdLocA", n>>
NLdArg(n) == <<"LdArg", n>>
NLdArgA(n) == <<"LdArgA", n>>
NCall(mref, args) == <<"Call", mref, args>>
NIntCast(input, target, extend) == <<"IntCast", input, target, extend>>
NFloatCast(input, target, is_signed) == <<"FloatCast", input, target, is_signed>>
NRefToPtr(input) == <<"RefToPtr", input>>
NPtrCast(input, cast_res) == <<"PtrCast", input, cast_res>>
NLdFieldAdress(addr, field) == <<"LdFieldAdress", addr, field>>
NLdField(addr, field) == <<"LdField", addr, field>>
NLdInd(addr, tpe, volitale) == <<"LdInd", addr, tpe, volitale>>
NSizeOf(tpe) == <<"SizeOf", tpe>>
NGetException == <<"GetException">>
NIsInst(object, tpe) == <<"IsInst", object, tpe>>
NCheckedCast(object, tpe) == <<"CheckedCast", object, tpe>>
NCallI(fnptr, sig, args) == <<"CallI", fnptr, sig, args>>
NLocAlloc(size) == <<"LocAlloc", size>>
NLdStaticField(sfld) == <<"LdStaticField", sfld>>
NLdFtn(mref) == <<"LdFtn", mref>>
NLdTypeToken(tpe) == <<"LdTypeToken", tpe>>
NLdLen(arr) == <<"LdLen", arr>>
NLocAllocAlgined(tpe, align) == <<"LocAllocAlgined", tpe, align>>
NLdElelemRef(array, index) == <<"LdElelemRef", array, index>>
NUnboxAny(object, tpe) == <<"UnboxAny", object, tpe>>

RECURSIVE translate_node(_, _, _)
RECURSIVE translate_args(_, _, _)

\* a faulty operand step that translates the operand a second time before
\* it interns it
node_then_alloc_twice(dst, source, idx) ==
    Bind(translate_node(dst, source, get_node(source, idx)), LAMBDA a1, n1 :
    Bind(translate_node(a1, source, get_node(source, idx)), LAMBDA a2, n2 :
    alloc_node(a2, n2)))

\* let x = self.translate_node(source, source.get_node(x).clone());
\* let x = self.alloc_node(x);
node_then_alloc(dst, source, idx) ==
    Bind(translate_node(dst, source, get_node(source, idx)), LAMBDA a, n :
    alloc_node(a, n))

\* let tpe = self.translate_type(source, *source.get_type(tpe));
\* let tpe = self.alloc_type(tpe);
type_then_alloc(dst, source, idx) ==
    Bind(translate_type(dst, source, get_type(source, idx)), LAMBDA a, t :
    alloc_type(a, t))

\* let sig = self.translate_sig(source, source.get_sig(sig).clone());
\* let sig = self.alloc_sig(sig);
sig_then_alloc(dst, source, idx) ==
    Bind(translate_sig(dst, source, get_sig(source, idx)), LAMBDA a, g :
    alloc_sig(a, g))

\* let field = self.translate_field(source, *source.get_field(field));
\* let field = self.alloc_field(field);
field_then_alloc(dst, source, idx) ==
    Bind(translate_field(dst, source, get_field(source, idx)), LAMBDA a, f :
    alloc_field(a, f))

\* let sfld = self.translate_static_field(source, *source.get_static_field(sfld));
\* let sfld = self.alloc_sfld(sfld);
sfld_then_alloc(dst, source, idx) ==
    Bind(translate_static_field(dst, source, get_static_field(source, idx)), LAMBDA a, f :
    alloc_sfld(a, f))

\* let method_ref = self.translate_method_ref(source, source.get_mref(*mref).clone());
\* let mref = self.alloc_methodref(method_ref);
mref_then_alloc(dst, source, idx) ==
    Bind(translate_method_ref(dst, source, get_mref(source, idx)), LAMBDA a, m :
    alloc_methodref(a, m))

\* args.iter().map(|arg| { translate_node; alloc_node }).collect()
translate_args(dst, source, args) ==
    IF args = <<>> THEN Ret(dst, <<>>)
    ELSE Bind(node_then_alloc(dst, source, Head(args)), LAMBDA a1, h :
         Bind(translate_args(a1, source, Tail(args)), LAMBDA a2, t :
         Ret(a2, <<h>> \o t)))

\* pushes a node onto the arena without looking it up
push_node(asm, n) == Interned(asm, "nodes", InsertNoDedup(asm.nodes, n))

\* a BinOp arm that re-allocates its operands blindly instead of interning them
translate_node_BinOp_realloc(dst, source, node) ==
    Bind(translate_node(dst, source, get_node(source, node[2])), LAMBDA a1, a :
    Bind(translate_node(a1, source, get_node(source, node[3])), LAMBDA a2, b :
    Bind(push_node(a2, a), LAMBDA a3, ai :
    Bind(push_node(a3, b), LAMBDA a4, bi :
    Ret(a4, NBinOp(ai, bi, node[4]))))))

\* CILNode::BinOp arm: both operands are translated, then both are allocated
translate_node_BinOp(dst, source, node) ==
    Bind(translate_node(dst, source, get_node(source, node[2])), LAMBDA a1, a :
    Bind(translate_node(a1, source, get_node(source, node[3])), LAMBDA a2, b :
    Bind(alloc_node(a2, a), LAMBDA a3, ai :
    Bind(alloc_node(a3, b), LAMBDA a4, bi :
    Ret(a4, NBinOp(ai, bi, node[4]))))))

\* an UnOp arm that re-allocates its operand blindly instead of interning it
translate_node_UnOp_realloc(dst, source, node) ==
    Bind(translate_node(dst, source, get_node(source, node[2])), LAMBDA a1, a :
    Bind(push_node(a1, a), LAMBDA a2, ai :
    Ret(a2, NUnOp(ai, node[3]))))

\* CILNode::UnOp arm
translate_node_UnOp(dst, source, node) ==
    Bind(translate_node(dst, source, get_node(source, node[2])), LAMBDA a1, a :
    Bind(alloc_node(a1, a), LAMBDA a2, ai :
    Ret(a2, NUnOp(ai, node[3]))))

\* CILNode::Call arm
translate_node_Call(dst, source, node) ==
    Bind(mref_then_alloc(dst, source, node[2]), LAMBDA a1, mref :
    Bind(translate_args(a1, source, node[3]), LAMBDA a2, args :
    Ret(a2, NCall(mref, args))))

\* the PtrCast arm's match on the cast result
translate_PtrCastRes(dst, source, cast_res) ==
    CASE cast_res[1] = "Ptr" ->
            Bind(type_then_alloc(dst, source, cast_res[2]), LAMBDA a, t :
            Ret(a, <<"Ptr", t>>))
      [] cast_res[1] = "Ref" ->
            Bind(type_then_alloc(dst, source, cast_res[2]), LAMBDA a, t :
            Ret(a, <<"Ref", t>>))
      [] cast_res[1] = "FnPtr" ->
            Bind(sig_then_alloc(dst, source, cast_res[2]), LAMBDA a, g :
            Ret(a, <<"FnPtr", g>>))
      [] cast_res[1] \in {"USize", "ISize"} -> Ret(dst, cast_res)

\* CILNode::PtrCast arm
translate_node_PtrCast(dst, source, node) ==
    Bind(node_then_alloc(dst, source, node[2]), LAMBDA a1, input :
    Bind(translate_PtrCastRes(a1, source, node[3]), LAMBDA a2, res :
    Ret(a2, NPtrCast(input, res))))

\* CILNode::LdField / CILNode::LdFieldAdress arms: field first, then addr
translate_node_LdField(dst, source, node) ==
    Bind(field_then_alloc(dst, source, node[3]), LAMBDA a1, field :
    Bind(node_then_alloc(a1, source, node[2]), LAMBDA a2, addr :
    Ret(a2, <<node[1], addr, field>>)))

\* CILNode::LdInd arm
translate_node_LdInd(dst, source, node) ==
    Bind(node_then_alloc(dst, source, node[2]), LAMBDA a1, addr :
    Bind(type_then_alloc(a1, source, node[3]), LAMBDA a2, tpe :
    Ret(a2, NLdInd(addr, tpe, node[4]))))

\* CILNode::IsInst / CheckedCast / UnboxAny arms: object first, then type
translate_node_ObjectType(dst, source, node) ==
    Bind(node_then_alloc(dst, source, node[2]), LAMBDA a1, object :
    Bind(type_then_alloc(a1, source, node[3]), LAMBDA a2, tpe :
    Ret(a2, <<node[1], object, tpe>>)))

\* CILNode::CallI arm
translate_node_CallI(dst, source, node) ==
    Bind(node_then_alloc(dst, source, node[2]), LAMBDA a1, fnptr :
    Bind(sig_then_alloc(a1, source, node[3]), LAMBDA a2, sig :
    Bind(translate_args(a2, source, node[4]), LAMBDA a3, args :
    Ret(a3, NCallI(fnptr, sig, args)))))

\* CILNode::LdElelemRef arm
translate_node_LdElelemRef(dst, source, node) ==
    Bind(node_then_alloc(dst, source, node[2]), LAMBDA a1, array :
    Bind(node_then_alloc(a1, source, node[3]), LAMBDA a2, index :
    Ret(a2, NLdElelemRef(array, index))))

translate_node(dst, source, node) ==
    CASE node[1] \in {"LdLoc", "LdLocA", "LdArg", "LdArgA", "Const"} -> Ret(Entered(dst), node)
      [] node[1] = "BinOp" -> translate_node_BinOp(Entered(dst), source, node)
      [] node[1] = "UnOp" -> translate_node_UnOp(Entered(dst), source, node)
      [] node[1] = "Call" -> translate_node_Call(Entered(dst), source, node)
      [] node[1] \in {"IntCast", "FloatCast"} ->
            Bind(node_then_alloc(Entered(dst), source, node[2]), LAMBDA a, input :
            Ret(a, <<node[1], input, node[3], node[4]>>))
      [] node[1] \in {"RefToPtr", "LocAlloc", "LdLen"} ->
            Bind(node_then_alloc(Entered(dst), source, node[2]), LAMBDA a, input :
            Ret(a, <<node[1], input>>))
      [] node[1] = "PtrCast" -> translate_node_PtrCast(Entered(dst), source, node)
      [] node[1] \in {"LdFieldAdress", "LdField"} -> translate_node_LdField(Entered(dst), source, node)
      [] node[1] = "LdInd" -> translate_node_LdInd(Entered(dst), source, node)
      [] node[1] \in {"SizeOf", "LdTypeToken"} ->
            Bind(type_then_alloc(Entered(dst), source, node[2]), LAMBDA a, tpe :
            Ret(a, <<node[1], tpe>>))
      [] node[1] = "GetException" -> Ret(Entered(dst), NGetException)
      [] node[1] \in {"IsInst", "CheckedCast", "UnboxAny"} ->
            translate_node_ObjectType(Entered(dst), source, node)
      [] node[1] = "CallI" -> translate_node_CallI(Entered(dst), source, node)
      [] node[1] = "LdStaticField" ->
            Bind(sfld_then_alloc(Entered(dst), source, node[2]), LAMBDA a, sfld :
            Ret(a, NLdStaticField(sfld)))
      [] node[1] = "LdFtn" ->
            Bind(mref_then_alloc(Entered(dst), source, node[2]), LAMBDA a, mref :
            Ret(a, NLdFtn(mref)))
      [] node[1] = "LocAllocAlgined" ->
            Bind(type_then_alloc(Entered(dst), source, node[2]), LAMBDA a, tpe :
            Ret(a, NLocAllocAlgined(tpe, node[3])))
      [] node[1] = "LdElelemRef" -> translate_node_LdElelemRef(Entered(dst), source, node)

(***************************************************************************)
(* CILRoot, BranchCond and Assembly::translate_root                        *)
(***************************************************************************)
RStLoc(loc, node) == <<"StLoc", loc, node>>
RStArg(loc, node) == <<"StArg", loc, node>>
RRet(node) == <<"Ret", node>>
RPop(node) == <<"Pop", node>>
RThrow(node) == <<"Throw", node>>
RBranch(target, sub_target, cond) == <<"Branch", target, sub_target, cond>>
RVoidRet == <<"VoidRet">>
RBreak == <<"Break">>
RNop == <<"Nop">>
RReThrow == <<"ReThrow">>
RSourceFileInfo(line_start, line_len, col_start, col_len, file) ==
    <<"SourceFileInfo", line_start, line_len, col_start, col_len, file>>
RSetField(field, addr, val) == <<"SetField", field, addr, val>>
RCall(mref, args) == <<"Call", mref, args>>
RStInd(addr, val, tpe, vol) == <<"StInd", addr, val, tpe, vol>>
RInitBlk(d, val, count) == <<"InitBlk", d, val, count>>
RCpBlk(d, src, len) == <<"CpBlk", d, src, len>>
RCallI(fnptr, sig, args) == <<"CallI", fnptr, sig, args>>
RExitSpecialRegion(target, source) == <<"ExitSpecialRegion", target, source>>
RSetStaticField(field, val) == <<"SetStaticField", field, val>>

\* the closure mapped over the Option<BranchCond> of a branch
translate_cond(dst, source, cond) ==
    CASE cond[1] \in {"True", "False"} ->
            Bind(node_then_alloc(dst, source, cond[2]), LAMBDA a, c :
            Ret(a, <<cond[1], c>>))
      [] cond[1] \in {"Eq", "Ne"} ->
            Bind(node_then_alloc(dst, source, cond[2]), LAMBDA a1, a :
            Bind(node_then_alloc(a1, source, cond[3]), LAMBDA a2, b :
            Ret(a2, <<cond[1], a, b>>)))
      [] cond[1] \in {"Lt", "Gt"} ->
            Bind(node_then_alloc(dst, source, cond[2]), LAMBDA a1, a :
            Bind(node_then_alloc(a1, source, cond[3]), LAMBDA a2, b :
            Ret(a2, <<cond[1], a, b, cond[4]>>)))

\* cond.as_ref().map(|cond| ...)
translate_cond_option(dst, source, cond) ==
    IF IsSome(cond)
    THEN Bind(translate_cond(dst, source, Unwrap(cond)), LAMBDA a, c : Ret(a, Some(c)))
    ELSE Ret(dst, None)

\* a faulty Branch arm that hands the labels back in the wrong order
translate_root_Branch_swapped_labels(dst, source, root) ==
    Bind(translate_cond_option(dst, source, root[4]), LAMBDA a, cond :
    Ret(a, RBranch(root[3], root[2], cond)))

\* CILRoot::Branch arm
translate_root_Branch(dst, source, root) ==
    Bind(translate_cond_option(dst, source, root[4]), LAMBDA a, cond :
    Ret(a, RBranch(root[2], root[3], cond)))

\* CILRoot::SourceFileInfo arm
translate_root_SourceFileInfo(dst, source, root) ==
    Bind(alloc_string(dst, get_string(source, root[6])), LAMBDA a, file :
    Ret(a, RSourceFileInfo(root[2], root[3], root[4], root[5], file)))

\* CILRoot::SetField arm
translate_root_SetField(dst, source, root) ==
    Bind(field_then_alloc(dst, source, root[2]), LAMBDA a1, field :
    Bind(node_then_alloc(a1, source, root[3]), LAMBDA a2, addr :
    Bind(node_then_alloc(a2, source, root[4]), LAMBDA a3, val :
    Ret(a3, RSetField(field, addr, val)))))

\* CILRoot::Call arm
translate_root_Call(dst, source, root) ==
    Bind(mref_then_alloc(dst, source, root[2]), LAMBDA a1, mref :
    Bind(translate_args(a1, source, root[3]), LAMBDA a2, args :
    Ret(a2, RCall(mref, args))))

\* CILRoot::StInd arm: the type is held by value
translate_root_StInd(dst, source, root) ==
    Bind(node_then_alloc(dst, source, root[2]), LAMBDA a1, addr :
    Bind(node_then_alloc(a1, source, root[3]), LAMBDA a2, val :
    Bind(translate_type(a2, source, root[4]), LAMBDA a3, tpe :
    Ret(a3, RStInd(addr, val, tpe, root[5])))))

\* CILRoot::InitBlk / CILRoot::CpBlk arms
translate_root_Blk(dst, source, root) ==
    Bind(node_then_alloc(dst, source, root[2]), LAMBDA a1, a :
    Bind(node_then_alloc(a1, source, root[3]), LAMBDA a2, b :
    Bind(node_then_alloc(a2, source, root[4]), LAMBDA a3, c :
    Ret(a3, <<root[1], a, b, c>>))))

\* CILRoot::CallI arm
translate_root_CallI(dst, source, root) ==
    Bind(node_then_alloc(dst, source, root[2]), LAMBDA a1, fnptr :
    Bind(sig_then_alloc(a1, source, root[3]), LAMBDA a2, sig :
    Bind(translate_args(a2, source, root[4]), LAMBDA a3, args :
    Ret(a3, RCallI(fnptr, sig, args)))))

\* CILRoot::SetStaticField arm: value first, then field
translate_root_SetStaticField(dst, source, root) ==
    Bind(node_then_alloc(dst, source, root[3]), LAMBDA a1, val :
    Bind(sfld_then_alloc(a1, source, root[2]), LAMBDA a2, field :
    Ret(a2, RSetStaticField(field, val))))

translate_root(dst, source, root) ==
    CASE root[1] \in {"StLoc", "StArg"} ->
            Bind(node_then_alloc(Entered(dst), source, root[3]), LAMBDA a, node :
            Ret(a, <<root[1], root[2], node>>))
      [] root[1] \in {"Ret", "Pop", "Throw"} ->
            Bind(node_then_alloc(Entered(dst), source, root[2]), LAMBDA a, node :
            Ret(a, <<root[1], node>>))
      [] root[1] = "Branch" -> translate_root_Branch(Entered(dst), source, root)
      [] root[1] \in {"VoidRet", "Break", "Nop", "ReThrow"} -> Ret(Entered(dst), root)
      [] root[1] = "SourceFileInfo" -> translate_root_SourceFileInfo(Entered(dst), source, root)
      [] root[1] = "SetField" -> translate_root_SetField(Entered(dst), source, root)
      [] root[1] = "Call" -> translate_root_Call(Entered(dst), source, root)
      [] root[1] = "StInd" -> translate_root_StInd(Entered(dst), source, root)
      [] root[1] \in {"InitBlk", "CpBlk"} -> translate_root_Blk(Entered(dst), source, root)
      [] root[1] = "CallI" -> translate_root_CallI(Entered(dst), source, root)
      [] root[1] = "ExitSpecialRegion" -> Ret(Entered(dst), RExitSpecialRegion(root[2], root[3]))
      [] root[1] = "SetStaticField" -> translate_root_SetStaticField(Entered(dst), source, root)

(***************************************************************************)
(* BasicBlock and Assembly::translate_block                                *)
(***************************************************************************)
\* BasicBlock::new(roots, block_id, handler)
BasicBlockNew(roots, block_id, handler) == <<"BasicBlock", roots, block_id, handler>>

\* MethodImpl
MethodBody(blocks, locals) == <<"MethodBody", blocks, locals>>
Extern(lib, preserve_errno) == <<"Extern", lib, preserve_errno>>
AliasFor(mref) == <<"AliasFor", mref>>
Missing == <<"Missing">>

\* MethodDef::new(access, class, name, sig, kind, method_impl, arg_names)
MethodDefNew(access, class, name, sig, kind, method_impl, arg_names) ==
    <<"MethodDef", access, class, name, sig, kind, method_impl, arg_names>>

\* ClassDef::new(name, is_valuetype, generics, extends, fields, static_fields,
\*               methods, access, explict_size)
ClassDefNew(name, is_valuetype, generics, extends, fields, static_fields, methods, access, explict_size) ==
    <<"ClassDef", name, is_valuetype, generics, extends, fields, static_fields,
      methods, access, explict_size>>

RECURSIVE translate_block(_, _, _)
RECURSIVE translate_block_roots(_, _, _)
RECURSIVE translate_blocks(_, _, _)

RECURSIVE translate_block_roots_rev(_, _, _)

\* a root loop that collects the handles last-translated first
translate_block_roots_rev(dst, source, roots) ==
    IF roots = <<>> THEN Ret(dst, <<>>)
    ELSE Bind(translate_root(dst, source, get_root(source, Head(roots))), LAMBDA a1, r :
         Bind(alloc_root(a1, r), LAMBDA a2, h :
         Bind(translate_block_roots_rev(a2, source, Tail(roots)), LAMBDA a3, t :
         Ret(a3, t \o <<h>>))))

\* block.roots().iter().map(|root| { translate_root; alloc_root }).collect()
translate_block_roots(dst, source, roots) ==
    IF roots = <<>> THEN Ret(dst, <<>>)
    ELSE Bind(translate_root(dst, source, get_root(source, Head(roots))), LAMBDA a1, r :
         Bind(alloc_root(a1, r), LAMBDA a2, h :
         Bind(translate_block_roots(a2, source, Tail(roots)), LAMBDA a3, t :
         Ret(a3, <<h>> \o t))))

\* blocks.iter().map(|block| self.translate_block(source, block)).collect()
translate_blocks(dst, source, blocks) ==
    IF blocks = <<>> THEN Ret(dst, <<>>)
    ELSE Bind(translate_block(dst, source, Head(blocks)), LAMBDA a1, h :
         Bind(translate_blocks(a1, source, Tail(blocks)), LAMBDA a2, t :
         Ret(a2, <<h>> \o t)))

\* block.handler().map(|blocks| ...)
translate_handler(dst, source, handler) ==
    IF IsSome(handler)
    THEN Bind(translate_blocks(dst, source, Unwrap(handler)), LAMBDA a, b : Ret(a, Some(b)))
    ELSE Ret(dst, None)

translate_block(dst, source, block) ==
    Bind(translate_block_roots(Entered(dst), source, block[2]), LAMBDA a1, roots :
    Bind(translate_handler(a1, source, block[4]), LAMBDA a2, handler :
    Ret(a2, BasicBlockNew(roots, block[3], handler))))

(***************************************************************************)
(* Source assemblies handed to the linker.  Each is a state the            *)
(* construction API can build: no arena holds a value twice, every handle  *)
(* in a value was issued by the assembly, and a node refers only to nodes  *)
(* allocated before it.                                                    *)
(***************************************************************************)
\* the program's own module
SrcA ==
    [strings |-> <<"main.rs", "Foo", "lib", "x", "f">>,
     types |-> <<TInt("I32"), TPtr(1), TRef(1), TClassRef(1)>>,
     sigs |-> <<FnSigNew(<<TPlatformArray(1, 1)>>, TVoid)>>,
     class_refs |-> <<ClassRefNew(2, Some(3), TRUE, <<TPtr(1)>>)>>,
     fields |-> <<FieldDescNew(1, 4, TFnPtr(1))>>,
     sflds |-> <<StaticFieldDescNew(1, 4, TBool)>>,
     mrefs |-> <<MethodRefNew(1, 5, 1, "Static", <<TInt("I32")>>)>>,
     nodes |-> <<NConst(<<"I32", 7>>),
                 NLdLoc(0),
                 NBinOp(1, 2, "Add"),
                 NUnOp(1, "Neg"),
                 NConst(<<"PlatformString", 2>>),
                 NLdField(2, 1),
                 NCall(1, <<1, 3>>),
                 NLdInd(2, 3, FALSE),
                 NPtrCast(2, <<"Ptr", 1>>)>>,
     roots |-> <<RSourceFileInfo(1, 0, 1, 0, 1),
                 RStLoc(0, 3),
                 RBranch(1, 0, Some(<<"Lt", 1, 2, "Signed">>)),
                 RRet(4),
                 RSetStaticField(1, 1),
                 RVoidRet,
                 RExitSpecialRegion(2, 1)>>,
     class_defs |-> {<<1, ClassDefNew(2, TRUE, 0, None,
                            <<<<TInt("I32"), 4, Some(0)>>,
                              <<TInt("I32"), 5, Some(4)>>>>,
                            <<>>, <<1>>, "Public", None)>>},
     method_defs |-> {<<1, MethodDefNew("Public", 1, 5, 1, "Static",
                             MethodBody(<<BasicBlockNew(<<6>>, 0, None)>>,
                                        <<<<Some(4), 1>>>>),
                             <<Some(4)>>)>>},
     log |-> <<>>, calls |-> 0]

\* a support module whose arenas number the same strings differently
SrcB ==
    [strings |-> <<"Foo", "main.rs">>,
     types |-> <<TClassRef(1)>>,
     sigs |-> <<FnSigNew(<<>>, TVoid)>>,
     class_refs |-> <<ClassRefNew(1, None, FALSE, <<>>)>>,
     fields |-> <<>>,
     sflds |-> <<>>,
     mrefs |-> <<MethodRefNew(1, 2, 1, "Static", <<>>)>>,
     nodes |-> <<NConst(<<"PlatformString", 1>>), NSizeOf(1)>>,
     roots |-> <<RSourceFileInfo(3, 0, 1, 0, 2), RThrow(1)>>,
     class_defs |-> {<<1, ClassDefNew(1, FALSE, 0, None,
                            <<<<TBool, 2, None>>>>,
                            <<<<TClassRef(1), 2, FALSE>>>>,
                            <<1>>, "Public", None)>>},
     method_defs |-> {<<1, MethodDefNew("Public", 1, 2, 1, "Static",
                             Extern(2, FALSE), <<>>)>>},
     log |-> <<>>, calls |-> 0]

\* a module whose expressions share their operands at every level: x + x,
\* (x + x) * (x + x), and so on
SrcShared ==
    [EmptyAsm EXCEPT
        !.nodes = <<NLdArg(0), NBinOp(1, 1, "Add"), NBinOp(2, 2, "Mul"),
                    NBinOp(3, 3, "Add"), NBinOp(4, 4, "Sub")>>,
        !.roots = <<RStLoc(0, 5), RRet(4)>>]

SourceIds == {"A", "B"}
Source(s) == CASE s = "A" -> SrcA [] s = "B" -> SrcB [] s = "S" -> SrcShared

\* the basic blocks of the method bodies of a source: a protected block with
\* two levels of nested handlers, and a plain block
Blocks(s) ==
    IF s = "A"
    THEN {BasicBlockNew(<<2, 3, 4>>, 0,
              Some(<<BasicBlockNew(<<1, 6>>, 1,
                         Some(<<BasicBlockNew(<<7>>, 2, None)>>)),
                     BasicBlockNew(<<>>, 3, None)>>)),
          BasicBlockNew(<<6, 1, 6>>, 4, None)}
    ELSE {BasicBlockNew(<<2, 1>>, 0, Some(<<>>))}

(***************************************************************************)
(* The handle-free meaning of an IR value relative to the assembly its     *)
(* handles are resolved in: every handle is replaced by the meaning of the *)
(* value it resolves to, every string handle by its bytes.  A handle the   *)
(* assembly never issued has the meaning <<"DANGLING">>.  Two values of    *)
(* two assemblies are translations of each other iff their meanings agree. *)
(***************************************************************************)
\* the kind of each payload element of variant `tag` of category `cat`
Payload(cat, tag) ==
    CASE cat = "Type" ->
            (CASE tag \in {"Ptr", "Ref"} -> <<"type">>
               [] tag \in {"Int", "Float"} -> <<"raw">>
               [] tag = "PlatformGeneric" -> <<"raw", "raw">>
               [] tag = "ClassRef" -> <<"cref">>
               [] tag = "PlatformArray" -> <<"type", "raw">>
               [] tag = "FnPtr" -> <<"sig">>
               [] OTHER -> <<>>)
      [] cat = "ClassRef" -> <<"str", "optstr", "raw", "Types">>
      [] cat = "FnSig" -> <<"Types", "Type">>
      [] cat \in {"FieldDesc", "StaticFieldDesc"} -> <<"cref", "str", "Type">>
      [] cat = "MethodRef" -> <<"cref", "str", "sig", "raw", "Types">>
      [] cat = "Const" -> IF tag = "PlatformString" THEN <<"str">> ELSE <<"raw">>
      [] cat = "PtrCastRes" ->
            (CASE tag \in {"Ptr", "Ref"} -> <<"type">>
               [] tag = "FnPtr" -> <<"sig">>
               [] OTHER -> <<>>)
      [] cat = "Cond" ->
            (CASE tag \in {"True", "False"} -> <<"node">>
               [] tag \in {"Eq", "Ne"} -> <<"node", "node">>
               [] tag \in {"Lt", "Gt"} -> <<"node", "node", "raw">>)
      [] cat = "Node" ->
            (CASE tag = "Const" -> <<"Const">>
               [] tag = "BinOp" -> <<"node", "node", "raw">>
               [] tag = "UnOp" -> <<"node", "raw">>
               [] tag \in {"LdLoc", "LdLocA", "LdArg", "LdArgA"} -> <<"raw">>
               [] tag = "Call" -> <<"mref", "nodes">>
               [] tag \in {"IntCast", "FloatCast"} -> <<"node", "raw", "raw">>
               [] tag \in {"RefToPtr", "LocAlloc", "LdLen"} -> <<"node">>
               [] tag = "PtrCast" -> <<"node", "PtrCastRes">>
               [] tag \in {"LdFieldAdress", "LdField"} -> <<"node", "field">>
               [] tag = "LdInd" -> <<"node", "type", "raw">>
               [] tag \in {"SizeOf", "LdTypeToken"} -> <<"type">>
               [] tag = "GetException" -> <<>>
               [] tag \in {"IsInst", "CheckedCast", "UnboxAny"} -> <<"node", "type">>
               [] tag = "CallI" -> <<"node", "sig", "nodes">>
               [] tag = "LdStaticField" -> <<"sfld">>
               [] tag = "LdFtn" -> <<"mref">>
               [] tag = "LocAllocAlgined" -> <<"type", "raw">>
               [] tag = "LdElelemRef" -> <<"node", "node">>)
      [] cat = "Root" ->
            (CASE tag \in {"StLoc", "StArg"} -> <<"raw", "node">>
               [] tag \in {"Ret", "Pop", "Throw"} -> <<"node">>
               [] tag = "Branch" -> <<"raw", "raw", "optCond">>
               [] tag \in {"VoidRet", "Break", "Nop", "ReThrow"} -> <<>>
               [] tag = "SourceFileInfo" -> <<"raw", "raw", "raw", "raw", "str">>
               [] tag = "SetField" -> <<"field", "node", "node">>
               [] tag = "Call" -> <<"mref", "nodes">>
               [] tag = "StInd" -> <<"node", "node", "Type", "raw">>
               [] tag \in {"InitBlk", "CpBlk"} -> <<"node", "node", "node">>
               [] tag = "CallI" -> <<"node", "sig", "nodes">>
               [] tag = "ExitSpecialRegion" -> <<"raw", "raw">>
               [] tag = "SetStaticField" -> <<"sfld", "node">>)
      [] cat = "BasicBlock" -> <<"roots", "raw", "optBlocks">>

Dangling == <<"DANGLING">>
TooDeep == <<"TOO_DEEP">>

\* the arena and the category of the values a handle of kind `kind` names
ArenaOf(asm, kind) ==
    CASE kind = "type" -> asm.types
      [] kind = "sig" -> asm.sigs
      [] kind = "cref" -> asm.class_refs
      [] kind = "field" -> asm.fields
      [] kind = "sfld" -> asm.sflds
      [] kind = "mref" -> asm.mrefs
      [] kind = "node" -> asm.nodes
      [] kind = "root" -> asm.roots
CatOf(kind) ==
    CASE kind = "type" -> "Type"
      [] kind = "sig" -> "FnSig"
      [] kind = "cref" -> "ClassRef"
      [] kind = "field" -> "FieldDesc"
      [] kind = "sfld" -> "StaticFieldDesc"
      [] kind = "mref" -> "MethodRef"
      [] kind = "node" -> "Node"
      [] kind = "root" -> "Root"
HandleKinds == {"type", "sig", "cref", "field", "sfld", "mref", "node", "root"}

RECURSIVE Deep(_, _, _, _, _)
RECURSIVE DeepElem(_, _, _, _, _)

DeepStr(asm, h) == IF Issued(asm.strings, h) THEN asm.strings[h] ELSE "<dangling>"

\* with `erase`, Type::Ref and Type::Ptr are not told apart
DeepTag(cat, tag, erase) ==
    IF erase /\ cat = "Type" /\ tag = "Ref" THEN "Ptr" ELSE tag

DeepElem(asm, kind, x, fuel, erase) ==
    CASE kind = "raw" -> x
      [] kind = "str" -> DeepStr(asm, x)
      [] kind = "optstr" -> IF IsSome(x) THEN Some(DeepStr(asm, Unwrap(x))) ELSE None
      [] kind \in HandleKinds ->
            IF Issued(ArenaOf(asm, kind), x)
            THEN Deep(asm, CatOf(kind), ArenaOf(asm, kind)[x], fuel - 1, erase)
            ELSE Dangling
      [] kind = "Type" -> Deep(asm, "Type", x, fuel, erase)
      [] kind = "Const" -> Deep(asm, "Const", x, fuel, erase)
      [] kind = "PtrCastRes" -> Deep(asm, "PtrCastRes", x, fuel, erase)
      [] kind = "Types" -> [i \in 1..Len(x) |-> Deep(asm, "Type", x[i], fuel, erase)]
      [] kind = "nodes" -> [i \in 1..Len(x) |-> DeepElem(asm, "node", x[i], fuel, erase)]
      [] kind = "roots" -> [i \in 1..Len(x) |-> DeepElem(asm, "root", x[i], fuel, erase)]
      [] kind = "optCond" ->
            IF IsSome(x) THEN Some(Deep(asm, "Cond", Unwrap(x), fuel, erase)) ELSE None
      [] kind = "optBlocks" ->
            IF IsSome(x)
            THEN Some([i \in 1..Len(Unwrap(x)) |->
                          Deep(asm, "BasicBlock", Unwrap(x)[i], fuel - 1, erase)])
            ELSE None

Deep(asm, cat, v, fuel, erase) ==
    IF fuel <= 0 THEN TooDeep
    ELSE LET kinds == Payload(cat, v[1])
         IN <<DeepTag(cat, v[1], erase)>>
            \o [i \in 1..Len(kinds) |-> DeepElem(asm, kinds[i], v[i + 1], fuel, erase)]

\* the meaning of the argument or the result of a translate_* operation `op`
Meaning(asm, op, v) ==
    IF op = "ClassRefIdx" THEN DeepElem(asm, "cref", v, MaxDepth, FALSE)
    ELSE Deep(asm, op, v, MaxDepth, FALSE)

\* the same, not telling a managed reference from a pointer
MeaningUpToPtrKind(asm, op, v) ==
    IF op = "ClassRefIdx" THEN DeepElem(asm, "cref", v, MaxDepth, TRUE)
    ELSE Deep(asm, op, v, MaxDepth, TRUE)

(***************************************************************************)
(* The linker as a state machine: one destination assembly, into which the *)
(* values of the sources are translated one call at a time.                *)
(*   dest   the destination assembly (self)                                *)
(*   last   the last call: its operation, source, argument and result      *)
(*   hist   every call made so far, as <<op, source, argument, result>>    *)
(*   steps  the number of calls made                                       *)
(***************************************************************************)
NoCall ==
    [op |-> "none", src |-> "A", input |-> <<>>, out |-> <<>>, repeat |-> FALSE,
     log |-> <<>>, calls |-> 0]

Init ==
    /\ dest = EmptyAsm
    /\ last = NoCall
    /\ hist = {}
    /\ steps = 0

\* the destination starts as a copy of the source: self-translation
InitSelf ==
    /\ dest = SrcA
    /\ last = NoCall
    /\ hist = {}
    /\ steps = 0

\* one call `op` on `input` of source `s` that returned r = Ret(dest', value)
Call(op, s, input, r) ==
    /\ steps < MaxSteps
    /\ dest' = Settled(r.asm)
    /\ last' = [op |-> op, src |-> s, input |-> input, out |-> r.val,
                repeat |-> \E h \in hist : h[1] = op /\ h[2] = s /\ h[3] = input,
                log |-> r.asm.log, calls |-> r.asm.calls]
    /\ hist' = hist \cup {<<op, s, input, r.val>>}
    /\ steps' = steps + 1

TranslateType ==
    \E s \in SourceIds : \E i \in 1..Len(Source(s).types) :
        LET tpe == get_type(Source(s), i)
        IN Call("Type", s, tpe, translate_type(dest, Source(s), tpe))

TranslateClassRef ==
    \E s \in SourceIds : \E i \in 1..Len(Source(s).class_refs) :
        Call("ClassRefIdx", s, i, translate_class_ref(dest, Source(s), i))

TranslateSig ==
    \E s \in SourceIds : \E i \in 1..Len(Source(s).sigs) :
        LET sig == get_sig(Source(s), i)
        IN Call("FnSig", s, sig, translate_sig(dest, Source(s), sig))

TranslateField ==
    \E s \in SourceIds : \E i \in 1..Len(Source(s).fields) :
        LET field == get_field(Source(s), i)
        IN Call("FieldDesc", s, field, translate_field(dest, Source(s), field))

TranslateStaticField ==
    \E s \in SourceIds : \E i \in 1..Len(Source(s).sflds) :
        LET field == get_static_field(Source(s), i)
        IN Call("StaticFieldDesc", s, field,
                translate_static_field(dest, Source(s), field))

TranslateMethodRef ==
    \E s \in SourceIds : \E i \in 1..Len(Source(s).mrefs) :
        LET mref == get_mref(Source(s), i)
        IN Call("MethodRef", s, mref, translate_method_ref(dest, Source(s), mref))

TranslateNode ==
    \E s \in SourceIds : \E i \in 1..Len(Source(s).nodes) :
        LET node == get_node(Source(s), i)
        IN Call("Node", s, node, translate_node(dest, Source(s), node))

TranslateRoot ==
    \E s \in SourceIds : \E i \in 1..Len(Source(s).roots) :
        LET root == get_root(Source(s), i)
        IN Call("Root", s, root, translate_root(dest, Source(s), root))

TranslateBlock ==
    \E s \in SourceIds : \E block \in Blocks(s) :
        Call("BasicBlock", s, block, translate_block(dest, Source(s), block))

Next ==
    \/ TranslateType
    \/ TranslateClassRef
    \/ TranslateSig
    \/ TranslateField
    \/ TranslateStaticField
    \/ TranslateMethodRef
    \/ TranslateNode
    \/ TranslateRoot
    \/ TranslateBlock

Spec == Init /\ [][Next]_vars

SpecSelf == InitSelf /\ [][Next]_vars

(***************************************************************************)
(* Sanity of the sources                                                   *)
(***************************************************************************)
NoDuplicates(arena) ==
    \A i, j \in 1..Len(arena) : arena[i] = arena[j] => i = j

RECURSIVE Resolves(_, _, _, _)
RECURSIVE ResolvesElem(_, _, _, _)

\* every handle in x, at every depth, was issued by asm
ResolvesElem(asm, kind, x, fuel) ==
    CASE kind = "raw" -> TRUE
      [] kind = "str" -> Issued(asm.strings, x)
      [] kind = "optstr" -> IsSome(x) => Issued(asm.strings, Unwrap(x))
      [] kind \in HandleKinds ->
            /\ Issued(ArenaOf(asm, kind), x)
            /\ Resolves(asm, CatOf(kind), ArenaOf(asm, kind)[x], fuel - 1)
      [] kind \in {"Type", "Const", "PtrCastRes"} -> Resolves(asm, kind, x, fuel)
      [] kind = "Types" -> \A i \in 1..Len(x) : Resolves(asm, "Type", x[i], fuel)
      [] kind = "nodes" -> \A i \in 1..Len(x) : ResolvesElem(asm, "node", x[i], fuel)
      [] kind = "roots" -> \A i \in 1..Len(x) : ResolvesElem(asm, "root", x[i], fuel)
      [] kind = "optCond" -> IsSome(x) => Resolves(asm, "Cond", Unwrap(x), fuel)
      [] kind = "optBlocks" ->
            IsSome(x) => \A i \in 1..Len(Unwrap(x)) :
                            Resolves(asm, "BasicBlock", Unwrap(x)[i], fuel - 1)

Resolves(asm, cat, v, fuel) ==
    /\ fuel > 0
    /\ LET kinds == Payload(cat, v[1])
       IN \A i \in 1..Len(kinds) : ResolvesElem(asm, kinds[i], v[i + 1], fuel)

\* no arena holds a value twice and every handle of every value resolves
Closed(asm) ==
    /\ NoDuplicates(asm.strings)
    /\ \A k \in HandleKinds :
         /\ NoDuplicates(ArenaOf(asm, k))
         /\ \A i \in 1..Len(ArenaOf(asm, k)) : ResolvesElem(asm, k, i, MaxDepth)

SourcesClosed ==
    \A s \in SourceIds :
        /\ Closed(Source(s))
        /\ \A b \in Blocks(s) : Resolves(Source(s), "BasicBlock", b, MaxDepth)

(***************************************************************************)
(* Claims about the linker                                                 *)
(***************************************************************************)
Translated == last.op # "none"

\* C1: after any translate_* call returns, every handle in the returned
\* value, at every nesting depth, was issued by the destination and resolves
\* there to the translation of the corresponding source sub-value: resolved
\* in the destination, the result means what the argument means in the source
\* (up to the pointer kind of a type, which is not a matter of handles).
C1_HandlesAreTranslated ==
    Translated =>
        MeaningUpToPtrKind(dest, last.op, last.out)
            = MeaningUpToPtrKind(Source(last.src), last.op, last.input)

\* every translate_* call so far took its argument from source s
OnlyFrom(s) == \A h \in hist : h[2] = s

\* C2: self-translation translate_X(A, A, x) of a value x held in A yields a
\* value structurally equal to x: resolved in the destination (which began as
\* A itself) the result means what x means in A.
C2_SelfTranslationIsIdentity ==
    (Translated /\ OnlyFrom("A")) =>
        Meaning(dest, last.op, last.out) = Meaning(SrcA, last.op, last.input)

\* the earlier calls of the operation, source and argument of call c
Earlier(c) == {h \in hist : h[1] = c.op /\ h[2] = c.src /\ h[3] = c.input}

\* C3: translating the same source value a second time into the same
\* destination, with any other translations in between, returns the value
\* the first translation returned (so that allocating it yields the same
\* handle) and adds no entry to any arena of the destination.
C3_RepeatedTranslationIsIdempotent ==
    [][last'.repeat =>
          /\ dest' = dest
          /\ \A h \in Earlier(last') : h[4] = last'.out]_vars

\* a node was translated, something else was translated, and then the same
\* node (one that has operands to allocate) was translated again
C3_Witness ==
    /\ last.repeat
    /\ last.op = "Node"
    /\ last.input[1] = "BinOp"
    /\ \E h \in hist : h[1] # "Node"
    /\ Len(dest.nodes) > 0

\* the node handles a node holds as operands, in order
Operands(node) ==
    LET kinds == Payload("Node", node[1])
        At(i) == CASE kinds[i] = "node" -> <<node[i + 1]>>
                   [] kinds[i] = "nodes" -> node[i + 1]
                   [] OTHER -> <<>>
    IN CASE Len(kinds) = 0 -> <<>>
         [] Len(kinds) = 1 -> At(1)
         [] Len(kinds) = 2 -> At(1) \o At(2)
         [] Len(kinds) = 3 -> At(1) \o At(2) \o At(3)

NodeCalls(s) == {h \in hist : h[1] = "Node" /\ h[2] = s}

\* C4: if two nodes of a source refer to the same sub-node handle, then once
\* both are translated into the destination their translations refer to one
\* and the same destination sub-node handle.
C4_SharingIsPreserved ==
    \A s \in SourceIds : \A h1, h2 \in NodeCalls(s) :
        \A i \in 1..Len(Operands(h1[3])) : \A j \in 1..Len(Operands(h2[3])) :
            Operands(h1[3])[i] = Operands(h2[3])[j]
                => Operands(h1[4])[i] = Operands(h2[4])[j]

\* two different nodes of A that share the operand node 1 have both been
\* translated, and their translations share an issued operand handle
C4_Witness ==
    \E h1, h2 \in NodeCalls("A") :
        /\ h1[3] = NBinOp(1, 2, "Add")
        /\ h2[3] = NUnOp(1, "Neg")
        /\ h1[4][2] = h2[4][2]
        /\ Issued(dest.nodes, h1[4][2])
        /\ get_node(dest, h1[4][2]) = NConst(<<"I32", 7>>)

\* the string handles a value of category `op` carries itself, in order
\* (a class reference is named by its handle and read out of the arena)
Strings(asm, op, v) ==
    CASE op = "ClassRefIdx" ->
            IF Issued(asm.class_refs, v)
            THEN <<class_ref(asm, v)[2]>> \o class_ref(asm, v)[3]
            ELSE <<>>
      [] op \in {"FieldDesc", "StaticFieldDesc", "MethodRef"} -> <<v[3]>>
      [] op = "Node" /\ v[1] = "Const" /\ v[2][1] = "PlatformString" -> <<v[2][2]>>
      [] op = "Root" /\ v[1] = "SourceFileInfo" -> <<v[6]>>
      [] OTHER -> <<>>

\* C5: when two values translated into the same destination carry
\* byte-identical strings (from one source handle, or from handles of two
\* different sources), both results carry one and the same destination
\* string handle, and that handle resolves to exactly those bytes.
C5_StringsCollapse ==
    \A h1, h2 \in hist :
        LET in1 == Strings(Source(h1[2]), h1[1], h1[3])
            in2 == Strings(Source(h2[2]), h2[1], h2[3])
            out1 == Strings(dest, h1[1], h1[4])
            out2 == Strings(dest, h2[1], h2[4])
        IN /\ Len(out1) = Len(in1)
           /\ \A i \in 1..Len(in1) : \A j \in 1..Len(in2) :
                get_string(Source(h1[2]), in1[i]) = get_string(Source(h2[2]), in2[j])
                    => /\ j <= Len(out2)
                       /\ out1[i] = out2[j]
                       /\ Issued(dest.strings, out1[i])
                       /\ get_string(dest, out1[i]) = get_string(Source(h1[2]), in1[i])

RECURSIVE BlockMirrors(_, _, _, _)

\* block `out` of assembly asm has the label, the roots and the handler tree
\* of block `in` of the source
BlockMirrors(asm, source, in, out) ==
    /\ out[3] = in[3]
    /\ Len(out[2]) = Len(in[2])
    /\ \A i \in 1..Len(in[2]) :
          /\ Issued(asm.roots, out[2][i])
          /\ get_root(asm, out[2][i])
                = translate_root(asm, source, get_root(source, in[2][i])).val
    /\ IsSome(out[4]) = IsSome(in[4])
    /\ IsSome(in[4]) =>
          /\ Len(Unwrap(out[4])) = Len(Unwrap(in[4]))
          /\ \A j \in 1..Len(Unwrap(in[4])) :
                BlockMirrors(asm, source, Unwrap(in[4])[j], Unwrap(out[4])[j])

\* C9: the block translate_block returns has the label of the source block,
\* as many roots, the i-th of them the translation of the i-th source root,
\* and a handler tree of the same shape at every depth: no handler list where
\* the source has none, n translated blocks in order where it has n.
C9_BlockShapeIsPreserved ==
    last.op = "BasicBlock" =>
        BlockMirrors(dest, Source(last.src), last.input, last.out)

\* a block with two levels of handlers, an empty handler block and several
\* distinct roots per block has been translated
C9_Witness ==
    /\ last.op = "BasicBlock"
    /\ last.src = "A"
    /\ Len(last.input[2]) = 3
    /\ IsSome(last.input[4])
    /\ Len(Unwrap(last.out[4])) = 2
    /\ IsSome(Unwrap(last.out[4])[1][4])
    /\ Len(Unwrap(Unwrap(last.out[4])[1][4])) = 1
    /\ Unwrap(last.out[4])[2][4] = None
    /\ last.out[2][1] # last.out[2][2]

\* the arenas of an assembly
ArenaNames ==
    {"strings", "types", "sigs", "class_refs", "fields", "sflds", "mrefs",
     "nodes", "roots"}

\* every handle arena `before` issued resolves to the same value in `after`
Extends(before, after) ==
    \A h \in 1..Len(before) : h <= Len(after) /\ after[h] = before[h]

EventsOn(f) == {i \in 1..Len(last.log) : last.log[i][1] = f}

InternedString(i, h) ==
    /\ last.log[i][1] = "strings"
    /\ get_string(dest, last.log[i][2]) = get_string(Source(last.src), h)

\* the number of names a class reference interns: its own and, when
\* present, that of its owning module
NamesOf(cref) == IF IsSome(cref[3]) THEN 2 ELSE 1

\* the log of a translate_class_ref call on cref: the names first, the
\* events of the generic arguments next, the class reference itself last
NamesGenericsClassRef(cref) ==
    /\ Len(last.log) > NamesOf(cref)
    /\ InternedString(1, cref[2])
    /\ IF IsSome(cref[3]) THEN InternedString(2, Unwrap(cref[3])) ELSE TRUE
    /\ last.log[Len(last.log)] = <<"class_refs", last.out>>
    /\ class_ref(dest, last.out)[5] # <<>> =>
          \A g \in 1..Len(class_ref(dest, last.out)[5]) :
             class_ref(dest, last.out)[5][g][1] \in {"Ptr", "Ref"} =>
                \E i \in (NamesOf(cref) + 1)..(Len(last.log) - 1) :
                    last.log[i] = <<"types", class_ref(dest, last.out)[5][g][2]>>

\* C15: in translate_class_ref the class name and, when present, the
\* owning-module name are interned into the destination before any generic
\* argument is translated, and the class reference itself is allocated only
\* after all its generic arguments have been translated.
C15_NamesBeforeGenerics ==
    last.op = "ClassRefIdx" =>
        NamesGenericsClassRef(class_ref(Source(last.src), last.input))

\* a class reference with a module name and a generic argument that has a
\* handle of its own was translated
C15_Witness ==
    /\ last.op = "ClassRefIdx"
    /\ IsSome(class_ref(Source(last.src), last.input)[3])
    /\ class_ref(Source(last.src), last.input)[5] # <<>>
    /\ Len(last.log) = 4
    /\ last.log[3][1] = "types"

(***************************************************************************)
(* CILNode::get_type                                                       *)
(* Result<Type, IString> is <<"Ok", type>> or <<"Err", message>>; a todo!()*)
(* that is reached is <<"Panic", ...>>.                                    *)
(***************************************************************************)
Ok(t) == <<"Ok", t>>
Err(msg) == <<"Err", msg>>
Todo == <<"Panic", "not yet implemented">>
IsOk(r) == r[1] = "Ok"

\* Const::get_type: the static type of a constant
Const_get_type(cst) ==
    CASE cst[1] \in {"I8", "I16", "I32", "I64", "ISize",
                     "U8", "U16", "U32", "U64", "USize"} -> TInt(cst[1])
      [] cst[1] \in {"F32", "F64"} -> TFloat(cst[1])
      [] cst[1] = "Bool" -> TBool
      [] cst[1] = "PlatformString" -> TPlatformString

PtrWidthInt(t) == t[1] = "Int" /\ t[2] \in {"USize", "ISize"}

\* a binop arm that lets any integer be added to a pointer
binop_type_any_int(lhs, rhs) ==
    IF lhs # rhs
    THEN CASE rhs[1] = "Int" /\ lhs[1] = "Ptr" -> Ok(rhs)
           [] rhs[1] = "Ptr" /\ lhs[1] = "Int" -> Ok(lhs)
           [] OTHER -> Err(<<"mismatched binop args.", lhs, rhs>>)
    ELSE Ok(lhs)

\* a binop arm whose test of the operand types is inverted
binop_type_inverted(lhs, rhs) ==
    IF lhs = rhs
    THEN Err(<<"mismatched binop args.", lhs, rhs>>)
    ELSE Ok(lhs)

\* the BinOp(lhs, rhs, Add | Sub | Mul) arm once both operands are typed:
\* format!("mismatched binop args. {lhs:?} != {rhs:?}") is the message with
\* the two types it prints
binop_type(lhs, rhs) ==
    IF lhs # rhs
    THEN CASE PtrWidthInt(rhs) /\ lhs[1] = "Ptr" -> Ok(rhs)
           [] rhs[1] = "Ptr" /\ PtrWidthInt(lhs) -> Ok(lhs)
           [] OTHER -> Err(<<"mismatched binop args.", lhs, rhs>>)
    ELSE Ok(lhs)

RECURSIVE CILNode_get_type(_, _)

\* a faulty get_type that gives the loads of locals and arguments a type
\* instead of failing
CILNode_get_type_guessing(node, asm) ==
    CASE node[1] = "Const" -> Ok(Const_get_type(node[2]))
      [] node[1] = "BinOp" /\ node[4] \in {"Add", "Sub", "Mul"} ->
            LET lhs == CILNode_get_type(get_node(asm, node[2]), asm)
            IN IF ~IsOk(lhs) THEN lhs
               ELSE LET rhs == CILNode_get_type(get_node(asm, node[3]), asm)
                    IN IF ~IsOk(rhs) THEN rhs
                       ELSE binop_type(lhs[2], rhs[2])
      [] node[1] \in {"LdLoc", "LdArg"} -> Ok(TInt("I32"))
      [] OTHER -> Todo

CILNode_get_type(node, asm) ==
    CASE node[1] = "Const" -> Ok(Const_get_type(node[2]))
      [] node[1] = "BinOp" /\ node[4] \in {"Add", "Sub", "Mul"} ->
            LET lhs == CILNode_get_type(get_node(asm, node[2]), asm)
            IN IF ~IsOk(lhs) THEN lhs
               ELSE LET rhs == CILNode_get_type(get_node(asm, node[3]), asm)
                    IN IF ~IsOk(rhs) THEN rhs
                       ELSE binop_type(lhs[2], rhs[2])
      [] OTHER -> Todo

(***************************************************************************)
(* Typing as a state machine: the front end allocates nodes into `dest`    *)
(* and asks for the type of a node; `last` holds the node and the answer.  *)
(* The operand types of the arithmetic arm are also drawn directly, since  *)
(* the rules that would give a node a pointer type are not written yet.    *)
(***************************************************************************)
\* nodes an assembly holds at most
MaxNodes == 3

ArithOps == {"Add", "Sub", "Mul"}
Leaves == {NConst(<<"I32", 7>>), NConst(<<"USize", 0>>), NLdLoc(0)}
OperandTypes ==
    {TInt("I32"), TInt("USize"), TInt("ISize"), TPtr(1), TPtr(2), TBool}

InitTyping ==
    /\ dest = EmptyAsm
    /\ last = NoCall
    /\ hist = {}
    /\ steps = 0

\* the construction API: alloc_node of a leaf, or of a binop of earlier nodes
AllocNode ==
    /\ Len(dest.nodes) < MaxNodes
    /\ \E n \in Leaves \cup {NBinOp(a, b, op) : a \in 1..Len(dest.nodes),
                                                b \in 1..Len(dest.nodes),
                                                op \in ArithOps \cup {"Eq"}} :
          dest' = Settled(alloc_node(dest, n).asm)
    /\ UNCHANGED <<last, hist, steps>>

\* node.get_type(sig, locals, asm) of a node of the assembly
GetType ==
    /\ \E i \in 1..Len(dest.nodes) :
          last' = [op |-> "get_type", src |-> "A", input |-> get_node(dest, i),
                   out |-> CILNode_get_type(get_node(dest, i), dest),
                   repeat |-> FALSE]
    /\ UNCHANGED <<dest, hist, steps>>

\* the arithmetic arm on operands whose types are lhs and rhs
TypeArith ==
    /\ \E lhs \in OperandTypes, rhs \in OperandTypes :
          last' = [op |-> "arith", src |-> "A", input |-> <<lhs, rhs>>,
                   out |-> binop_type(lhs, rhs), repeat |-> FALSE]
    /\ UNCHANGED <<dest, hist, steps>>

NextTyping == AllocNode \/ GetType \/ TypeArith

SpecTyping == InitTyping /\ [][NextTyping]_vars

\* the types of the two operands of the arithmetic node `last` is about
\* (defined when both operands have a type)
OperandsTyped ==
    \/ last.op = "arith"
    \/ /\ last.op = "get_type"
       /\ last.input[1] = "BinOp"
       /\ last.input[4] \in ArithOps
       /\ IsOk(CILNode_get_type(get_node(dest, last.input[2]), dest))
       /\ IsOk(CILNode_get_type(get_node(dest, last.input[3]), dest))
LhsType ==
    IF last.op = "arith" THEN last.input[1]
    ELSE CILNode_get_type(get_node(dest, last.input[2]), dest)[2]
RhsType ==
    IF last.op = "arith" THEN last.input[2]
    ELSE CILNode_get_type(get_node(dest, last.input[3]), dest)[2]

PtrAndPtrWidthInt(a, b) ==
    \/ a[1] = "Ptr" /\ PtrWidthInt(b)
    \/ b[1] = "Ptr" /\ PtrWidthInt(a)

\* C6: get_type of an Add, Sub or Mul node one of whose operands has a
\* pointer type and the other the type USize or ISize, in either order,
\* succeeds with the pointer type.
C6_PointerArithmeticYieldsPointer ==
    (OperandsTyped /\ PtrAndPtrWidthInt(LhsType, RhsType)) =>
        last.out = Ok(IF LhsType[1] = "Ptr" THEN LhsType ELSE RhsType)

\* C7: get_type of an Add, Sub or Mul node whose operands both have the
\* type T is Ok(T).
C7_EqualOperandsYieldTheirType ==
    (OperandsTyped /\ LhsType = RhsType) => last.out = Ok(LhsType)

\* an Add node of the assembly whose two operands are constants of one type
\* has been typed
C7_Witness ==
    /\ last.op = "get_type"
    /\ OperandsTyped
    /\ LhsType = TInt("I32")
    /\ RhsType = TInt("I32")
    /\ last.out = Ok(TInt("I32"))

\* C8: get_type of an Add, Sub or Mul node whose operand types differ and are
\* not a pointer with USize or ISize is an error whose message holds both
\* operand types.
C8_MismatchIsAnError ==
    (OperandsTyped /\ LhsType # RhsType /\ ~PtrAndPtrWidthInt(LhsType, RhsType)) =>
        /\ last.out[1] = "Err"
        /\ last.out[2][2] = LhsType
        /\ last.out[2][3] = RhsType

\* the arm has refused two pointers to different pointees
C8_Witness ==
    /\ last.op = "arith"
    /\ last.input = <<TPtr(1), TPtr(2)>>
    /\ last.out[1] = "Err"

(***************************************************************************)
(* The legacy node grammar and its companions.  A legacy node is a tree:   *)
(* <<opcode, operand, ...>> with legacy nodes, legacy types, call sites and*)
(* field descriptors as operands.  A legacy type is <<name>> or            *)
(* <<"Ptr" | "ManagedReference", inner>>, <<"DelegatePtr", sig>>,          *)
(* <<"DotnetType", type_ref>>; a signature is <<inputs, output>>; a type   *)
(* reference is <<assembly or None, name, is_valuetype, generics>>; a call *)
(* site is <<class or None, name, sig, is_static, generics>>; a field      *)
(* descriptor is <<owner, name, type>>.                                    *)
(***************************************************************************)
IntNames == {"I8", "I16", "I32", "I64", "ISize", "U8", "U16", "U32", "U64", "USize"}

RECURSIVE Type_from_v1(_, _)
RECURSIVE Types_from_v1(_, _)
RECURSIVE FnSig_from_v1(_, _)
RECURSIVE ClassRef_from_v1(_, _)

\* Type::from_v1
Type_from_v1(asm, t) ==
    CASE t[1] \in IntNames -> Ret(asm, TInt(t[1]))
      [] t[1] = "Bool" -> Ret(asm, TBool)
      [] t[1] = "Void" -> Ret(asm, TVoid)
      [] t[1] = "Ptr" ->
            Bind(Type_from_v1(asm, t[2]), LAMBDA a, inner : nptr(a, inner))
      [] t[1] = "ManagedReference" ->
            Bind(Type_from_v1(asm, t[2]), LAMBDA a1, inner :
            Bind(alloc_type(a1, inner), LAMBDA a2, h :
            Ret(a2, TRef(h))))
      [] t[1] = "DelegatePtr" ->
            Bind(FnSig_from_v1(asm, t[2]), LAMBDA a1, sig :
            Bind(alloc_sig(a1, sig), LAMBDA a2, h :
            Ret(a2, TFnPtr(h))))
      [] t[1] = "DotnetType" ->
            Bind(ClassRef_from_v1(asm, t[2]), LAMBDA a1, cref :
            Bind(alloc_class_ref(a1, cref), LAMBDA a2, h :
            Ret(a2, TClassRef(h))))

\* .iter().map(|t| Type::from_v1(t, asm)).collect()
Types_from_v1(asm, ts) ==
    IF ts = <<>> THEN Ret(asm, <<>>)
    ELSE Bind(Type_from_v1(asm, Head(ts)), LAMBDA a1, h :
         Bind(Types_from_v1(a1, Tail(ts)), LAMBDA a2, t :
         Ret(a2, <<h>> \o t)))

\* FnSig::from_v1
FnSig_from_v1(asm, sig) ==
    Bind(Types_from_v1(asm, sig[1]), LAMBDA a1, inputs :
    Bind(Type_from_v1(a1, sig[2]), LAMBDA a2, output :
    Ret(a2, FnSigNew(inputs, output))))

\* the assembly name of a legacy type reference, interned when there is one
asm_from_v1(asm, lib) ==
    IF IsSome(lib)
    THEN Bind(alloc_string(asm, Unwrap(lib)), LAMBDA a, l : Ret(a, Some(l)))
    ELSE Ret(asm, None)

\* ClassRef::from_v1
ClassRef_from_v1(asm, dt) ==
    Bind(alloc_string(asm, dt[2]), LAMBDA a1, name :
    Bind(asm_from_v1(a1, dt[1]), LAMBDA a2, lib :
    Bind(Types_from_v1(a2, dt[4]), LAMBDA a3, generics :
    Ret(a3, ClassRefNew(name, lib, dt[3], generics)))))

\* FieldDesc::from_v1
FieldDesc_from_v1(asm, field) ==
    Bind(ClassRef_from_v1(asm, field[1]), LAMBDA a1, owner :
    Bind(alloc_class_ref(a1, owner), LAMBDA a2, oi :
    Bind(alloc_string(a2, field[2]), LAMBDA a3, name :
    Bind(Type_from_v1(a3, field[3]), LAMBDA a4, tpe :
    Ret(a4, FieldDescNew(oi, name, tpe))))))

\* StaticFieldDesc::from_v1
StaticFieldDesc_from_v1(asm, sfld) ==
    Bind(ClassRef_from_v1(asm, sfld[1]), LAMBDA a1, owner :
    Bind(alloc_class_ref(a1, owner), LAMBDA a2, oi :
    Bind(alloc_string(a2, sfld[2]), LAMBDA a3, name :
    Bind(Type_from_v1(a3, sfld[3]), LAMBDA a4, tpe :
    Ret(a4, StaticFieldDescNew(oi, name, tpe))))))

\* Assembly::main_module: the class every free function belongs to
main_module(asm) ==
    Bind(alloc_string(asm, "MainModule"), LAMBDA a, name :
    alloc_class_ref(a, ClassRefNew(name, None, FALSE, <<>>)))

(***************************************************************************)
(* CILNode::from_v1.  The outcome is the node and the assembly it was      *)
(* interned into, or a panic (todo!(), panic!(), a failed assert!) with    *)
(* the assembly as the panic left it.                                      *)
(***************************************************************************)
V1Ok(asm, val) == [val |-> val, ok |-> TRUE, asm |-> asm]
V1Panic(asm, msg) == [val |-> msg, ok |-> FALSE, asm |-> asm]

LDIndOps ==
    {"LDIndBool", "LDIndU8", "LDIndU16", "LDIndU32", "LDIndU64", "LDIndUSize",
     "LDIndI8", "LDIndI16", "LDIndI32", "LDIndI64", "LDIndISize",
     "LDIndF32", "LDIndF64"}

\* the type each LDInd* opcode loads
LDIndType(op) ==
    CASE op = "LDIndBool" -> TBool
      [] op = "LDIndU8" -> TInt("U8")
      [] op = "LDIndU16" -> TInt("U16")
      [] op = "LDIndU32" -> TInt("U32")
      [] op = "LDIndU64" -> TInt("U64")
      [] op = "LDIndUSize" -> TInt("USize")
      [] op = "LDIndI8" -> TInt("I8")
      [] op = "LDIndI16" -> TInt("I16")
      [] op = "LDIndI32" -> TInt("I32")
      [] op = "LDIndI64" -> TInt("I64")
      [] op = "LDIndISize" -> TInt("ISize")
      [] op = "LDIndF32" -> TFloat("F32")
      [] op = "LDIndF64" -> TFloat("F64")

IntCastOps ==
    {"ZeroExtendToU64", "SignExtendToU64", "ZeroExtendToUSize",
     "SignExtendToUSize", "ConvU8", "ConvU16", "ConvU32", "SignExtendToI64",
     "ZeroExtendToISize", "SignExtendToISize", "ConvI8", "ConvI16", "ConvI32"}

\* the target and the extend kind each integer conversion opcode stands for
IntCastOf(op) ==
    CASE op = "ZeroExtendToU64" -> <<"U64", "ZeroExtend">>
      [] op = "SignExtendToU64" -> <<"U64", "SignExtend">>
      [] op = "ZeroExtendToUSize" -> <<"USize", "ZeroExtend">>
      [] op = "SignExtendToUSize" -> <<"USize", "SignExtend">>
      [] op = "ConvU8" -> <<"U8", "ZeroExtend">>
      [] op = "ConvU16" -> <<"U16", "ZeroExtend">>
      [] op = "ConvU32" -> <<"U32", "ZeroExtend">>
      [] op = "SignExtendToI64" -> <<"I64", "SignExtend">>
      [] op = "ZeroExtendToISize" -> <<"ISize", "ZeroExtend">>
      [] op = "SignExtendToISize" -> <<"ISize", "SignExtend">>
      [] op = "ConvI8" -> <<"I8", "SignExtend">>
      [] op = "ConvI16" -> <<"I16", "SignExtend">>
      [] op = "ConvI32" -> <<"I32", "SignExtend">>

FloatCastOps == {"ConvF32", "ConvF64", "ConvF64Un"}

\* a faulty table in which every float conversion is signed
FloatCastOf_signed(op) == <<IF op = "ConvF32" THEN "F32" ELSE "F64", TRUE>>

\* the target and the signedness each float conversion opcode stands for
FloatCastOf(op) ==
    CASE op = "ConvF32" -> <<"F32", TRUE>>
      [] op = "ConvF64" -> <<"F64", TRUE>>
      [] op = "ConvF64Un" -> <<"F64", FALSE>>

\* the legacy binary opcodes; each has a BinOp of its own name
V1BinOps ==
    {"Add", "Sub", "Mul", "Eq", "Or", "XOr", "And", "LtUn", "Lt", "GtUn", "Gt",
     "Rem", "RemUn", "Shl", "Shr", "ShrUn", "Div", "DivUn"}

V1UnOps == {"Not", "Neg"}

\* the Ldc* opcodes; LdcT(val) is Const::T(val)
LdcOps ==
    {"LdcU64", "LdcU32", "LdcU16", "LdcU8", "LdcI64", "LdcI32", "LdcI16",
     "LdcI8", "LdcF64", "LdcF32"}
LdcConst(op) ==
    CASE op = "LdcU64" -> "U64" [] op = "LdcU32" -> "U32"
      [] op = "LdcU16" -> "U16" [] op = "LdcU8" -> "U8"
      [] op = "LdcI64" -> "I64" [] op = "LdcI32" -> "I32"
      [] op = "LdcI16" -> "I16" [] op = "LdcI8" -> "I8"
      [] op = "LdcF64" -> "F64" [] op = "LdcF32" -> "F32"

\* the rest of the body, K, runs when r did not panic; a panic unwinds
Try(r, K(_, _)) == IF r.ok THEN K(r.asm, r.val) ELSE r

\* a step that cannot panic, as an outcome of from_v1
Fine(r) == V1Ok(r.asm, r.val)

RECURSIVE from_v1(_, _)
RECURSIVE from_v1_args(_, _)

\* let node = Self::from_v1(v1, asm); asm.alloc_node(node)
from_v1_alloc(asm, v1) ==
    Try(from_v1(asm, v1), LAMBDA a, node : Fine(alloc_node(a, node)))

\* args.iter().map(|arg| { from_v1; alloc_node }).collect()
from_v1_args(asm, args) ==
    IF args = <<>> THEN V1Ok(asm, <<>>)
    ELSE Try(from_v1_alloc(asm, Head(args)), LAMBDA a1, h :
         Try(from_v1_args(a1, Tail(args)), LAMBDA a2, t :
         V1Ok(a2, <<h>> \o t)))

\* a faulty choice of owner that takes the main module for every call site
from_v1_class_main_module(asm, class) == main_module(asm)

\* site.class().map(|dt| alloc_class_ref(ClassRef::from_v1(dt, asm)))
\*     .unwrap_or_else(|| *asm.main_module())
from_v1_class(asm, class) ==
    IF IsSome(class)
    THEN Bind(ClassRef_from_v1(asm, Unwrap(class)), LAMBDA a, cref :
         alloc_class_ref(a, cref))
    ELSE main_module(asm)

\* the part Call, CallVirt, NewObj and LDFtn share: signature, generics,
\* class (the main module when the site names none) and name of a call site
from_v1_site(asm, site) ==
    Bind(FnSig_from_v1(asm, site[3]), LAMBDA a1, sig :
    Bind(alloc_sig(a1, sig), LAMBDA a2, si :
    Bind(Types_from_v1(a2, site[5]), LAMBDA a3, generics :
    Bind(from_v1_class(a3, site[1]), LAMBDA a4, class :
    Bind(alloc_string(a4, site[2]), LAMBDA a5, name :
    Ret(a5, [class |-> class, name |-> name, sig |-> si, generics |-> generics]))))))

\* MethodRef::new(class, name, sig, kind, generics) of a converted call site
site_method_ref(site, kind) ==
    MethodRefNew(site.class, site.name, site.sig, kind, site.generics)

\* the CastPtr arm's match on the new pointer type
from_v1_PtrCastRes(asm, new_ptr) ==
    CASE new_ptr[1] = "USize" -> V1Ok(asm, <<"USize">>)
      [] new_ptr[1] = "ISize" -> V1Ok(asm, <<"ISize">>)
      [] new_ptr[1] = "Ptr" ->
            Bind(Type_from_v1(asm, new_ptr[2]), LAMBDA a1, inner :
            Bind(alloc_type(a1, inner), LAMBDA a2, h :
            V1Ok(a2, <<"Ptr", h>>)))
      [] new_ptr[1] = "ManagedReference" ->
            Bind(Type_from_v1(asm, new_ptr[2]), LAMBDA a1, inner :
            Bind(alloc_type(a1, inner), LAMBDA a2, h :
            V1Ok(a2, <<"Ref", h>>)))
      [] new_ptr[1] = "DelegatePtr" ->
            Bind(FnSig_from_v1(asm, new_ptr[2]), LAMBDA a1, sig :
            Bind(alloc_sig(a1, sig), LAMBDA a2, h :
            V1Ok(a2, <<"FnPtr", h>>)))
      [] OTHER -> V1Panic(asm, "Type is not a pointer.")

\* a faulty choice of kind that never looks at the call site
call_kind_ignoring_site(op, is_static) ==
    CASE op = "Call" -> "Instance"
      [] op = "CallVirt" -> "Virtual"
      [] op = "NewObj" -> "Constructor"

\* the kind of method the Call, CallVirt and NewObj arms build
call_kind(op, is_static) ==
    CASE op = "Call" -> IF is_static THEN "Static" ELSE "Instance"
      [] op = "CallVirt" -> "Virtual"
      [] op = "NewObj" -> "Constructor"

\* the Call, CallVirt and NewObj arms
from_v1_Call(asm, v1) ==
    Try(from_v1_args(asm, v1[3]), LAMBDA a1, args :
    Bind(from_v1_site(a1, v1[2]), LAMBDA a2, site :
    IF v1[1] # "Call" /\ v1[2][4]
    THEN V1Panic(a2, "assertion failed: !callargs.site.is_static()")
    ELSE Bind(alloc_methodref(a2, site_method_ref(site, call_kind(v1[1], v1[2][4]))),
              LAMBDA a3, mref : V1Ok(a3, NCall(mref, args)))))

\* the LDFtn arm
from_v1_LDFtn(asm, v1) ==
    Bind(from_v1_site(asm, v1[2]), LAMBDA a1, site :
    Bind(alloc_methodref(a1, site_method_ref(site, call_kind("Call", v1[2][4]))),
         LAMBDA a2, mref : V1Ok(a2, NLdFtn(mref))))

\* the IsInst and CheckedCast arms
from_v1_ObjectType(asm, v1) ==
    Bind(ClassRef_from_v1(asm, v1[3]), LAMBDA a1, cref :
    Bind(alloc_class_ref(a1, cref), LAMBDA a2, ci :
    Bind(alloc_type(a2, TClassRef(ci)), LAMBDA a3, tpe :
    Try(from_v1_alloc(a3, v1[2]), LAMBDA a4, val :
    V1Ok(a4, IF v1[1] = "IsInst" THEN NIsInst(val, tpe)
             ELSE NCheckedCast(val, tpe))))))

\* the CallI arm
from_v1_CallI(asm, v1) ==
    Bind(FnSig_from_v1(asm, v1[2]), LAMBDA a1, sig :
    Bind(alloc_sig(a1, sig), LAMBDA a2, si :
    Try(from_v1_alloc(a2, v1[3]), LAMBDA a3, ptr :
    Try(from_v1_args(a3, v1[4]), LAMBDA a4, args :
    V1Ok(a4, NCallI(ptr, si, args))))))

\* a faulty Volatile arm that interns the load before it sets the flag
set_volitale_after_alloc(asm, tmp) ==
    IF tmp[1] = "LdInd"
    THEN V1Ok(alloc_node(asm, tmp).asm, NLdInd(tmp[2], tmp[3], TRUE))
    ELSE V1Panic(asm, "explicit panic")

\* the Volatile arm once the inner tree is upgraded
set_volitale(asm, tmp) ==
    IF tmp[1] = "LdInd" THEN V1Ok(asm, NLdInd(tmp[2], tmp[3], TRUE))
    ELSE V1Panic(asm, "explicit panic")

from_v1(asm, v1) ==
    CASE v1[1] = "LDArg" -> V1Ok(asm, NLdArg(v1[2]))
      [] v1[1] = "LDLoc" -> V1Ok(asm, NLdLoc(v1[2]))
      [] v1[1] = "LDArgA" -> V1Ok(asm, NLdArgA(v1[2]))
      [] v1[1] = "LDLocA" -> V1Ok(asm, NLdLocA(v1[2]))
      [] v1[1] \in LDIndOps ->
            Try(from_v1_alloc(asm, v1[2]), LAMBDA a1, ptr :
            Bind(alloc_type(a1, LDIndType(v1[1])), LAMBDA a2, tpe :
            V1Ok(a2, NLdInd(ptr, tpe, FALSE))))
      [] v1[1] = "LdObj" ->
            Bind(Type_from_v1(asm, v1[3]), LAMBDA a1, obj :
            Try(from_v1_alloc(a1, v1[2]), LAMBDA a2, ptr :
            Bind(alloc_type(a2, obj), LAMBDA a3, tpe :
            V1Ok(a3, NLdInd(ptr, tpe, FALSE)))))
      [] v1[1] = "LDIndPtr" ->
            Try(from_v1(asm, v1[2]), LAMBDA a1, ptr :
            Bind(Type_from_v1(a1, v1[3]), LAMBDA a2, loaded_ptr :
            Bind(alloc_node(a2, ptr), LAMBDA a3, addr :
            Bind(alloc_type(a3, loaded_ptr), LAMBDA a4, tpe :
            V1Ok(a4, NLdInd(addr, tpe, FALSE))))))
      [] v1[1] \in IntCastOps ->
            Try(from_v1_alloc(asm, v1[2]), LAMBDA a, node :
            V1Ok(a, NIntCast(node, IntCastOf(v1[1])[1], IntCastOf(v1[1])[2])))
      [] v1[1] \in FloatCastOps ->
            Try(from_v1_alloc(asm, v1[2]), LAMBDA a, node :
            V1Ok(a, NFloatCast(node, FloatCastOf(v1[1])[1], FloatCastOf(v1[1])[2])))
      [] v1[1] = "MRefToRawPtr" ->
            Try(from_v1_alloc(asm, v1[2]), LAMBDA a, raw : V1Ok(a, NRefToPtr(raw)))
      [] v1[1] = "CastPtr" ->
            Try(from_v1(asm, v1[2]), LAMBDA a1, val :
            Try(from_v1_PtrCastRes(a1, v1[3]), LAMBDA a2, ptr :
            Bind(alloc_node(a2, val), LAMBDA a3, vi :
            V1Ok(a3, NPtrCast(vi, ptr)))))
      [] v1[1] \in V1BinOps ->
            Try(from_v1(asm, v1[2]), LAMBDA a1, lhs :
            Try(from_v1(a1, v1[3]), LAMBDA a2, rhs :
            Bind(alloc_node(a2, lhs), LAMBDA a3, li :
            Bind(alloc_node(a3, rhs), LAMBDA a4, ri :
            V1Ok(a4, NBinOp(li, ri, v1[1]))))))
      [] v1[1] \in V1UnOps ->
            Try(from_v1_alloc(asm, v1[2]), LAMBDA a, val : V1Ok(a, NUnOp(val, v1[1])))
      [] v1[1] \in {"LDField", "LDFieldAdress"} ->
            Bind(FieldDesc_from_v1(asm, v1[3]), LAMBDA a1, field :
            Bind(alloc_field(a1, field), LAMBDA a2, fi :
            Try(from_v1_alloc(a2, v1[2]), LAMBDA a3, addr :
            V1Ok(a3, IF v1[1] = "LDField" THEN NLdField(addr, fi)
                     ELSE NLdFieldAdress(addr, fi)))))
      [] v1[1] \in {"Call", "CallVirt", "NewObj"} -> from_v1_Call(asm, v1)
      [] v1[1] = "GetException" -> V1Ok(asm, NGetException)
      [] v1[1] = "LdStr" ->
            Bind(alloc_string(asm, v1[2]), LAMBDA a, string :
            V1Ok(a, NConst(<<"PlatformString", string>>)))
      [] v1[1] = "SizeOf" ->
            Bind(Type_from_v1(asm, v1[2]), LAMBDA a1, tpe :
            Bind(alloc_type(a1, tpe), LAMBDA a2, ti : V1Ok(a2, NSizeOf(ti))))
      [] v1[1] = "LDTypeToken" ->
            Bind(Type_from_v1(asm, v1[2]), LAMBDA a1, tpe :
            Bind(alloc_type(a1, tpe), LAMBDA a2, ti : V1Ok(a2, NLdTypeToken(ti))))
      [] v1[1] \in LdcOps -> V1Ok(asm, NConst(<<LdcConst(v1[1]), v1[2]>>))
      [] v1[1] = "LdFalse" -> V1Ok(asm, NConst(<<"Bool", FALSE>>))
      [] v1[1] = "LdTrue" -> V1Ok(asm, NConst(<<"Bool", TRUE>>))
      [] v1[1] \in {"IsInst", "CheckedCast"} -> from_v1_ObjectType(asm, v1)
      [] v1[1] = "CallI" -> from_v1_CallI(asm, v1)
      [] v1[1] = "LocAlloc" ->
            Try(from_v1_alloc(asm, v1[2]), LAMBDA a, size : V1Ok(a, NLocAlloc(size)))
      [] v1[1] = "LocAllocAligned" ->
            Bind(Type_from_v1(asm, v1[2]), LAMBDA a1, tpe :
            Bind(alloc_type(a1, tpe), LAMBDA a2, ti :
            V1Ok(a2, NLocAllocAlgined(ti, v1[3]))))
      [] v1[1] = "LDStaticField" ->
            Bind(StaticFieldDesc_from_v1(asm, v1[2]), LAMBDA a1, sfld :
            Bind(alloc_sfld(a1, sfld), LAMBDA a2, si : V1Ok(a2, NLdStaticField(si))))
      [] v1[1] = "LDFtn" -> from_v1_LDFtn(asm, v1)
      [] v1[1] = "Volatile" ->
            Try(from_v1(asm, v1[2]), LAMBDA a, tmp : set_volitale(a, tmp))
      [] v1[1] = "LDLen" ->
            Try(from_v1_alloc(asm, v1[2]), LAMBDA a, arr : V1Ok(a, NLdLen(arr)))
      [] v1[1] = "LDElelemRef" ->
            Try(from_v1_alloc(asm, v1[2]), LAMBDA a1, array :
            Try(from_v1_alloc(a1, v1[3]), LAMBDA a2, index :
            V1Ok(a2, NLdElelemRef(array, index))))
      [] v1[1] = "UnboxAny" ->
            Try(from_v1_alloc(asm, v1[2]), LAMBDA a1, object :
            Bind(Type_from_v1(a1, v1[3]), LAMBDA a2, tpe :
            Bind(alloc_type(a2, tpe), LAMBDA a3, ti :
            V1Ok(a3, NUnboxAny(object, ti)))))
      [] OTHER -> V1Panic(asm, <<"not yet implemented: v1:", v1>>)

(***************************************************************************)
(* The upgrade as a state machine: the front end hands legacy trees to     *)
(* from_v1 one after another, all interned into `dest`; a panic ends the   *)
(* run.                                                                    *)
(***************************************************************************)
\* legacy trees upgraded in one run
MaxUpgrades == 2

V1I32 == <<"I32">>
V1PtrI32 == <<"Ptr", V1I32>>
V1FnSig == <<<<V1PtrI32, <<"USize">>>>, <<"Void">>>>
V1Foo == <<Some("lib"), "Foo", TRUE, <<>>>>
V1FooField == <<V1Foo, "x", <<"Bool">>>>
V1StaticSite == <<None, "f", V1FnSig, TRUE, <<>>>>
V1InstanceSite == <<Some(V1Foo), "set_Item", V1FnSig, FALSE, <<V1I32>>>>

V1Arg == <<"LDArg", 0>>
V1Seven == <<"LdcI32", 7>>

\* legacy trees without operands
V1Leaves ==
    {V1Arg, <<"LDLoc", 1>>, <<"LDArgA", 0>>, <<"LDLocA", 1>>, V1Seven,
     <<"LdcU64", 1>>, <<"LdStr", "x">>, <<"LdTrue">>, <<"LdFalse">>,
     <<"GetException">>, <<"SizeOf", V1I32>>, <<"LDTypeToken", V1PtrI32>>,
     <<"LDStaticField", V1FooField>>, <<"LDFtn", V1StaticSite>>,
     <<"LDFtn", V1InstanceSite>>, <<"LocAllocAligned", <<"DotnetType", V1Foo>>, 8>>}

\* legacy trees over the operand x that from_v1 has an arm for
V1Over(x) ==
    {<<"LDIndI32", x>>, <<"LDIndBool", x>>, <<"LDIndF64", x>>,
     <<"LdObj", x, <<"DotnetType", V1Foo>>>>, <<"LDIndPtr", x, V1PtrI32>>,
     <<"ZeroExtendToU64", x>>, <<"ConvI8", x>>, <<"ConvF64Un", x>>,
     <<"MRefToRawPtr", x>>,
     <<"CastPtr", x, <<"USize">>>>, <<"CastPtr", x, <<"ISize">>>>,
     <<"CastPtr", x, V1PtrI32>>, <<"CastPtr", x, <<"ManagedReference", V1I32>>>>,
     <<"CastPtr", x, <<"DelegatePtr", V1FnSig>>>>,
     <<"Add", x, V1Seven>>, <<"Sub", V1Seven, x>>, <<"ShrUn", x, x>>,
     <<"Not", x>>, <<"Neg", x>>,
     <<"LDField", x, V1FooField>>, <<"LDFieldAdress", x, V1FooField>>,
     <<"Call", V1StaticSite, <<x, V1Seven>>>>, <<"Call", V1InstanceSite, <<x>>>>,
     <<"CallVirt", V1InstanceSite, <<x>>>>, <<"NewObj", V1InstanceSite, <<>>>>,
     <<"IsInst", x, V1Foo>>, <<"CheckedCast", x, V1Foo>>,
     <<"CallI", V1FnSig, x, <<x, V1Seven>>>>,
     <<"LocAlloc", x>>, <<"LDLen", x>>, <<"LDElelemRef", x, V1Seven>>,
     <<"UnboxAny", x, V1I32>>,
     <<"Volatile", <<"LDIndI32", x>>>>, <<"Volatile", <<"LdObj", x, V1I32>>>>,
     <<"SignExtendToI64", <<"Neg", x>>>>}
    \cup {<<op, x>> : op \in IntCastOps \cup FloatCastOps}

RECURSIVE sub_trees(_, _, _)

\* for value in values { sub_trees.push(CILRoot::Call { set_Item ... }) }
sub_trees(array_getter, values, index) ==
    IF values = <<>> THEN <<>>
    ELSE <<<<"Call", <<Some(<<None, "Array", TRUE, <<>>>>), "set_Item",
                       <<<<V1PtrI32, <<"USize">>, V1I32>>, <<"Void">>>>,
                       FALSE, <<>>>>,
             <<array_getter, <<"ZeroExtendToUSize", <<"LdcU64", index>>>>,
               Head(values)>>>>>>
         \o sub_trees(array_getter, Tail(values), index + 1)

\* handle_aggregate, array case: the set_Item calls as sub-trees, then the
\* place read back
handle_aggregate_Array(array_getter, values, place_get) ==
    <<"SubTrees", sub_trees(array_getter, values, 0), place_get>>

\* the needs_drop intrinsic: an already interned node embedded in a legacy tree
handle_intrinsic_needs_drop(node) == <<"V2", node>>

\* the legacy trees the front end builds, given the nodes already interned
V1Built(asm) ==
    V1Leaves \cup V1Over(V1Arg)
    \cup {handle_aggregate_Array(<<"LDLocA", 1>>, <<V1Seven, V1Arg>>, <<"LDLoc", 1>>)}
    \cup {<<"Add", handle_aggregate_Array(<<"LDLocA", 1>>, <<V1Seven>>, <<"LDLoc", 1>>),
            V1Seven>>}
    \cup {handle_intrinsic_needs_drop(h) : h \in 1..Len(asm.nodes)}

\* legacy trees that break the contract of an opcode
V1Misuse ==
    {<<"CallVirt", V1StaticSite, <<V1Arg>>>>, <<"NewObj", V1StaticSite, <<>>>>,
     <<"CastPtr", V1Arg, V1I32>>, <<"Volatile", V1Arg>>}

InitUpgrade ==
    /\ dest = EmptyAsm
    /\ last = NoCall
    /\ hist = {}
    /\ steps = 0

Running == IF last.op = "none" THEN TRUE ELSE last.out[1] # "Panic"

\* what `last` records of a call of from_v1
Upgraded(v1, r) ==
    [op |-> "from_v1", src |-> "A", input |-> v1,
     out |-> IF r.ok THEN <<"Ok", r.val>> ELSE <<"Panic", r.val>>,
     repeat |-> FALSE, log |-> r.asm.log]

\* the assembly and `last` after a call of from_v1 with outcome r
FromV1Done(v1, r) ==
    /\ dest' = Settled(r.asm)
    /\ last' = Upgraded(v1, r)

\* CILNode::from_v1(&v1, asm)
FromV1 ==
    /\ Running
    /\ steps < MaxUpgrades
    /\ \E v1 \in V1Built(dest) \cup V1Misuse : FromV1Done(v1, from_v1(dest, v1))
    /\ steps' = steps + 1
    /\ UNCHANGED hist

\* ctx.alloc_node(needs_drop): the front end interns a constant itself
NeedsDrop ==
    /\ Running
    /\ steps < MaxUpgrades
    /\ \E b \in {0, 1} : dest' = Settled(alloc_node(dest, NConst(<<"I32", b>>)).asm)
    /\ steps' = steps + 1
    /\ UNCHANGED <<last, hist>>

NextUpgrade == FromV1 \/ NeedsDrop

SpecUpgrade == InitUpgrade /\ [][NextUpgrade]_vars

\* an upgrade that succeeded leaves an assembly in which every handle resolves
UpgradeClosed == Closed(dest)

\* C10: from_v1 returns a current-form node, without failure, for every
\* legacy tree the front end builds, the sub-tree sequence, the volatile
\* prefix and the embedded current-form node included.
C10_UpgradeIsTotal ==
    (last.op = "from_v1" /\ last.input \in V1Built(dest)) => last.out[1] = "Ok"

\* the opcodes from_v1 has an arm for do upgrade: the volatile prefix on a
\* load yields a volatile load
C10_VolatileUpgrades ==
    /\ last.op = "from_v1"
    /\ last.input = <<"Volatile", <<"LDIndI32", V1Arg>>>>
    /\ last.out[1] = "Ok"
    /\ last.out[2][1] = "LdInd"
    /\ last.out[2][4] = TRUE

(***************************************************************************)
(* Definitions: Assembly::translate_method_def and translate_class_def.    *)
(* class_defs and method_defs are the entries <<key, definition>> of the   *)
(* two definition maps; the key of a class definition is the handle of its *)
(* class reference, the key of a method definition the handle of its       *)
(* method reference.  The outcome of a translation is the definition, or   *)
(* the panic of the failed unwrap with the destination as the panic left   *)
(* it.                                                                     *)
(***************************************************************************)
\* Assembly::class_ref_to_def: the definition handle of a class reference
\* when a local definition exists
class_ref_to_def(asm, cref) ==
    IF \E e \in asm.class_defs : e[1] = cref THEN Some(cref) ELSE None

\* Assembly::method_def
method_def(asm, mdef) == (CHOOSE e \in asm.method_defs : e[1] = mdef)[2]

\* the log with one more call recorded
Logged(asm, event) == [asm EXCEPT !.log = Append(@, event)]

\* a faulty owner resolution that gives the class a definition when the
\* destination holds none
unwrap_class_def_or_define(asm, class) ==
    V1Ok([Logged(asm, <<"class_ref_to_def", class>>) EXCEPT
             !.class_defs = @ \cup
                 (IF IsSome(class_ref_to_def(asm, class)) THEN {}
                  ELSE {<<class, <<"ClassDef">>>>})],
         class)

\* self.class_ref_to_def(class).unwrap()
unwrap_class_def(asm, class) ==
    IF IsSome(class_ref_to_def(asm, class))
    THEN V1Ok(Logged(asm, <<"class_ref_to_def", class>>),
              Unwrap(class_ref_to_def(asm, class)))
    ELSE V1Panic(Logged(asm, <<"class_ref_to_def", class>>),
                 "called Option::unwrap() on a None value")

\* the closure over one local (name, tpe) of a method body
translate_local(dst, source, local) ==
    Bind(translate_type(dst, source, get_type(source, local[2])), LAMBDA a1, tpe :
    Bind(translate_asm_name(a1, source, local[1]), LAMBDA a2, name :
    Bind(alloc_type(a2, tpe), LAMBDA a3, ti :
    Ret(a3, <<name, ti>>))))

RECURSIVE translate_locals(_, _, _)
translate_locals(dst, source, locals) ==
    IF locals = <<>> THEN Ret(dst, <<>>)
    ELSE Bind(translate_local(dst, source, Head(locals)), LAMBDA a1, h :
         Bind(translate_locals(a1, source, Tail(locals)), LAMBDA a2, t :
         Ret(a2, <<h>> \o t)))

\* def.arg_names().iter().map(|arg| arg.map(alloc_string)).collect()
RECURSIVE translate_arg_names(_, _, _)
translate_arg_names(dst, source, names) ==
    IF names = <<>> THEN Ret(dst, <<>>)
    ELSE Bind(translate_asm_name(dst, source, Head(names)), LAMBDA a1, h :
         Bind(translate_arg_names(a1, source, Tail(names)), LAMBDA a2, t :
         Ret(a2, <<h>> \o t)))

\* match def.implementation()
translate_method_impl(dst, source, method_impl) ==
    CASE method_impl[1] = "MethodBody" ->
            Bind(translate_blocks(dst, source, method_impl[2]), LAMBDA a1, blocks :
            Bind(translate_locals(a1, source, method_impl[3]), LAMBDA a2, locals :
            Ret(a2, MethodBody(blocks, locals))))
      [] method_impl[1] = "Extern" ->
            Bind(alloc_string(dst, get_string(source, method_impl[2])), LAMBDA a, lib :
            Ret(a, Extern(lib, method_impl[3])))
      [] method_impl[1] = "AliasFor" ->
            Bind(mref_then_alloc(dst, source, method_impl[2]), LAMBDA a, mref :
            Ret(a, AliasFor(mref)))
      [] method_impl[1] = "Missing" -> Ret(dst, Missing)

\* translate_method_def from `let name` on, the owner being resolved
translate_method_def_rest(dst, source, def, class) ==
    Bind(alloc_string(dst, get_string(source, def[4])), LAMBDA a1, name :
    Bind(sig_then_alloc(a1, source, def[5]), LAMBDA a2, sig :
    Bind(translate_method_impl(a2, source, def[7]), LAMBDA a3, method_impl :
    Bind(translate_arg_names(a3, source, def[8]), LAMBDA a4, arg_names :
    V1Ok(a4, MethodDefNew(def[2], class, name, sig, def[6], method_impl, arg_names))))))

\* a faulty translate_method_def that processes name, signature and body
\* first and resolves the owner last
translate_method_def_owner_last(dst, source, def) ==
    Try(translate_method_def_rest(dst, source, def, def[3]), LAMBDA a1, d :
    Bind(translate_class_ref(a1, source, def[3]), LAMBDA a2, class :
    Try(unwrap_class_def(a2, class), LAMBDA a3, cdef :
    V1Ok(a3, MethodDefNew(d[2], cdef, d[4], d[5], d[6], d[7], d[8])))))

translate_method_def(dst, source, def) ==
    Bind(translate_class_ref(Entered(dst), source, def[3]), LAMBDA a1, class :
    Try(unwrap_class_def(a1, class), LAMBDA a2, cdef :
    translate_method_def_rest(a2, source, def, cdef)))

\* Assembly::new_method: the definition is entered under the handle of its
\* method reference
new_method(asm, def) ==
    Bind(alloc_methodref(asm, MethodRefNew(def[3], def[4], def[5], def[6], <<>>)),
         LAMBDA a, mref :
    Ret([a EXCEPT !.method_defs = {e \in @ : e[1] # mref} \cup {<<mref, def>>}], mref))

\* def.extends().map(|cref| self.translate_class_ref(source, cref))
translate_extends(dst, source, extends) ==
    IF IsSome(extends)
    THEN Bind(translate_class_ref(dst, source, Unwrap(extends)), LAMBDA a, c :
         Ret(a, Some(c)))
    ELSE Ret(dst, None)

\* the closure over one field (tpe, name, offset) or one static field
\* (tpe, name, thread_local) of a class definition: the name interned is
\* def.name()
translate_def_field(dst, source, def, field) ==
    Bind(translate_type(dst, source, field[1]), LAMBDA a1, tpe :
    Bind(alloc_string(a1, get_string(source, def[2])), LAMBDA a2, name :
    Ret(a2, <<tpe, name, field[3]>>)))

\* def.fields().iter().map(..).collect(), def.static_fields() likewise
RECURSIVE translate_def_fields(_, _, _, _)
translate_def_fields(dst, source, def, fields) ==
    IF fields = <<>> THEN Ret(dst, <<>>)
    ELSE Bind(translate_def_field(dst, source, def, Head(fields)), LAMBDA a1, h :
         Bind(translate_def_fields(a1, source, def, Tail(fields)), LAMBDA a2, t :
         Ret(a2, <<h>> \o t)))

\* def.methods().iter().map(|mdef| { translate_method_def; new_method })
RECURSIVE translate_methods(_, _, _)
translate_methods(dst, source, methods) ==
    IF methods = <<>> THEN V1Ok(dst, <<>>)
    ELSE Try(translate_method_def(dst, source, method_def(source, Head(methods))),
             LAMBDA a1, d :
         Bind(new_method(a1, d), LAMBDA a2, h :
         Try(translate_methods(a2, source, Tail(methods)), LAMBDA a3, t :
         V1Ok(a3, <<h>> \o t))))

translate_class_def(dst, source, def) ==
    Bind(alloc_string(Entered(dst), get_string(source, def[2])), LAMBDA a1, name :
    Bind(translate_extends(a1, source, def[5]), LAMBDA a2, extends :
    Bind(translate_def_fields(a2, source, def, def[6]), LAMBDA a3, fields :
    Bind(translate_def_fields(a3, source, def, def[7]), LAMBDA a4, static_fields :
    Try(translate_methods(a4, source, def[8]), LAMBDA a5, methods :
    V1Ok(a5, ClassDefNew(name, def[3], def[4], extends, fields, static_fields,
                         methods, def[9], def[10])))))))

(***************************************************************************)
(* Linking definitions as a state machine: class references are copied,    *)
(* classes are given a local definition, method and class definitions are  *)
(* translated.  A panic ends the run.                                      *)
(***************************************************************************)
\* the method definitions handed to translate_method_def: those the source
\* holds and one of every other implementation variant
MethodDefs(s) ==
    {e[2] : e \in Source(s).method_defs} \cup
    (IF s = "A"
     THEN {MethodDefNew("Public", 1, 5, 1, "Static", AliasFor(1), <<None, Some(4)>>),
           MethodDefNew("Private", 1, 4, 1, "Virtual", Missing, <<>>)}
     ELSE {MethodDefNew("Private", 1, 2, 1, "Instance",
               MethodBody(<<BasicBlockNew(<<2, 1>>, 0, None)>>, <<<<None, 1>>>>),
               <<Some(1)>>)})

\* the class definitions handed to translate_class_def: those the source
\* holds, and classes without methods
ClassDefs(s) ==
    {e[2] : e \in Source(s).class_defs} \cup
    (IF s = "A"
     THEN {ClassDefNew(2, TRUE, 0, Some(1),
               <<<<TPtr(1), 4, Some(0)>>, <<TInt("I32"), 5, Some(8)>>>>,
               <<<<TBool, 1, TRUE>>>>, <<>>, "Public", Some(16))}
     ELSE {ClassDefNew(1, FALSE, 0, None, <<<<TBool, 2, None>>>>, <<>>, <<>>,
               "Private", None)})

DefOps == {"MethodDef", "ClassDef"}

\* the run was ended by a panic
Aborted == IF last.op \in DefOps THEN last.out[1] = "Panic" ELSE FALSE

\* one call `op` on the definition `input` of source `s` with outcome r
DefCall(op, s, input, r) ==
    /\ steps < MaxSteps
    /\ dest' = Settled(r.asm)
    /\ last' = [op |-> op, src |-> s, input |-> input,
                out |-> IF r.ok THEN <<"Ok", r.val>> ELSE <<"Panic", r.val>>,
                repeat |-> \E h \in hist : h[1] = op /\ h[2] = s /\ h[3] = input,
                log |-> r.asm.log, calls |-> r.asm.calls]
    /\ hist' = hist \cup {<<op, s, input, r.val>>}
    /\ steps' = steps + 1

\* Assembly::class_def: a class the destination refers to gets its local
\* definition
DefineClass ==
    /\ ~Aborted
    /\ steps < MaxSteps
    /\ \E h \in 1..Len(dest.class_refs) :
          /\ class_ref_to_def(dest, h) = None
          /\ dest' = [dest EXCEPT !.class_defs = @ \cup
                        {<<h, ClassDefNew(class_ref(dest, h)[2], class_ref(dest, h)[4],
                                          0, None, <<>>, <<>>, <<>>, "Public", None)>>}]
    /\ steps' = steps + 1
    /\ UNCHANGED <<last, hist>>

CopyClassRef == ~Aborted /\ TranslateClassRef

TranslateMethodDef ==
    /\ ~Aborted
    /\ \E s \in SourceIds : \E def \in MethodDefs(s) :
          DefCall("MethodDef", s, def, translate_method_def(dest, Source(s), def))

TranslateClassDef ==
    /\ ~Aborted
    /\ \E s \in SourceIds : \E def \in ClassDefs(s) :
          DefCall("ClassDef", s, def, translate_class_def(dest, Source(s), def))

NextDefs == CopyClassRef \/ DefineClass \/ TranslateMethodDef \/ TranslateClassDef

SpecDefs == Init /\ [][NextDefs]_vars

\* C12: no partial success.  When translate_method_def or translate_class_def
\* fails, the destination holds no value allocated on behalf of the failed
\* definition: its arenas and its definitions are as they were before the
\* call.
C12_FailureLeavesDestinationUntouched ==
    [][(last'.op \in DefOps /\ last'.out[1] = "Panic") => dest' = dest]_vars

\* the names of the translated fields, as bytes of the destination
FieldNames(asm, fields) == [i \in 1..Len(fields) |-> get_string(asm, fields[i][2])]

\* C13: translate_class_def gives every translated field and every
\* translated static field the name of that field itself, the bytes its own
\* name handle holds in the source, not the name of the owning class; fields
\* with different names in the source have different names in the destination.
C13_FieldsKeepTheirNames ==
    (last.op = "ClassDef" /\ last.out[1] = "Ok") =>
        /\ FieldNames(dest, last.out[2][6]) = FieldNames(Source(last.src), last.input[6])
        /\ FieldNames(dest, last.out[2][7]) = FieldNames(Source(last.src), last.input[7])

\* the outcome `owner` of translating the owner class reference is how the
\* call that left `after` and `call` began: the log of the call starts with
\* the log of the owner's translation, followed by the resolution of the
\* handle it returned; when the destination holds no definition for that
\* handle the call panics there, and the destination is as the translation
\* of the owner left it
OwnerFirst(owner, after, call) ==
    /\ Len(call.log) > Len(owner.asm.log)
    /\ SubSeq(call.log, 1, Len(owner.asm.log)) = owner.asm.log
    /\ call.log[Len(owner.asm.log) + 1] = <<"class_ref_to_def", owner.val>>
    /\ IF class_ref_to_def(owner.asm, owner.val) = None
       THEN /\ call.out[1] = "Panic"
            /\ Len(call.log) = Len(owner.asm.log) + 1
            /\ after = Settled(owner.asm)
       ELSE /\ call.out[1] = "Ok"
            /\ call.out[2][3] = Unwrap(class_ref_to_def(owner.asm, owner.val))

\* C14: in translate_method_def the owner class reference is translated and
\* resolved to a destination class-definition handle before the method's
\* name, its signature or any element of its body is allocated into the
\* destination; if the translated owner has no definition in the destination
\* the call fails at that point and nothing of the signature or body is
\* processed.
C14_OwnerIsResolvedFirst ==
    [][last'.op = "MethodDef" =>
          OwnerFirst(translate_class_ref(dest, Source(last'.src), last'.input[3]),
                     dest', last')]_vars

\* a method with a body was translated: its owner resolved, and its name,
\* signature, blocks and locals were allocated after the resolution
C14_Witness ==
    /\ last.op = "MethodDef"
    /\ last.out[1] = "Ok"
    /\ last.input[7][1] = "MethodBody"
    /\ \E i \in 1..Len(last.log) :
          /\ last.log[i][1] = "class_ref_to_def"
          /\ \E j \in (i + 1)..Len(last.log) : last.log[j][1] = "roots"

\* a method whose owner has no definition in the destination was refused
C14_WitnessRefused ==
    /\ last.op = "MethodDef"
    /\ last.out[1] = "Panic"
    /\ last.log[Len(last.log)][1] = "class_ref_to_def"

(***************************************************************************)
(* The interning arenas on their own: values are allocated into the        *)
(* arenas of one assembly through alloc_string, alloc_type and alloc_node. *)
(* `last.op` is the arena, `hist` the inserts made so far.                 *)
(***************************************************************************)
\* the values inserted
SomeStrings == {"a", "b", "main.rs"}
SomeTypes == {TInt("I32"), TBool, TPtr(1)}
SomeNodes == {NLdLoc(0), NLdArg(0)}

AllocString == \E v \in SomeStrings : Call("strings", "A", v, alloc_string(dest, v))
AllocType == \E v \in SomeTypes : Call("types", "A", v, alloc_type(dest, v))
AllocLeaf == \E v \in SomeNodes : Call("nodes", "A", v, alloc_node(dest, v))

NextArena == AllocString \/ AllocType \/ AllocLeaf

SpecArena == Init /\ [][NextArena]_vars

\* the insert of value v that returned handle h turned `before` into `after`:
\* an equal value already present keeps the arena as it is and h is its
\* handle; a new value is appended and h was not issued before
InsertedInto(before, v, h, after) ==
    IF \E i \in 1..Len(before) : before[i] = v
    THEN after = before /\ Issued(before, h) /\ before[h] = v
    ELSE after = Append(before, v) /\ ~Issued(before, h) /\ Issued(after, h)

\* C16: interning idempotence, used by every alloc_* of an assembly.
\* Inserting a value equal to one already present returns the existing
\* handle and leaves the arena unchanged; inserting a new value returns a
\* fresh handle distinct from all handles issued before; and get(insert(v))
\* equals v after any sequence of later inserts.
C16_InterningIsIdempotent ==
    [][/\ InsertedInto(dest[last'.op], last'.input, last'.out, dest'[last'.op])
       /\ \A e \in hist' : dest'[e[1]][e[4]] = e[3]
       /\ \A e \in hist' : e[1] = last'.op /\ e[3] = last'.input => e[4] = last'.out
      ]_vars

\* a value was inserted a second time after another value went into the
\* same arena in between
C16_Witness ==
    /\ last.op = "strings"
    /\ last.repeat
    /\ last.out = 1
    /\ Len(dest.strings) = 2
    /\ steps = 3

(***************************************************************************)
(* get_type over every variant of CILNode.  The assembly holds two         *)
(* constants of different types, their (ill-typed) sum, one node of a      *)
(* variant whose typing rule is not written, and one Add, Sub or Mul over  *)
(* these nodes; get_type is asked for the type of each of them.            *)
(***************************************************************************)
\* the BinOps other than Add, Sub and Mul
OtherBinOps ==
    {"Eq", "LtUn", "Lt", "GtUn", "Gt", "Or", "XOr", "And", "Rem", "RemUn",
     "Shl", "Shr", "ShrUn", "DivUn", "Div"}

\* one node of every variant of CILNode but Const and the Add, Sub and Mul
\* BinOps; handle 1 is a constant, a type, a signature, a field, a static
\* field and a method reference of the assembly
UntypedNodes ==
    {NBinOp(1, 1, op) : op \in OtherBinOps} \cup
    {NUnOp(1, "Not"), NUnOp(1, "Neg"), NLdLoc(0), NLdLocA(0), NLdArg(0),
     NLdArgA(0), NCall(1, <<1>>), NIntCast(1, "I64", "SignExtend"),
     NFloatCast(1, "F64", TRUE), NRefToPtr(1), NPtrCast(1, <<"USize">>),
     NLdFieldAdress(1, 1), NLdField(1, 1), NLdInd(1, 1, FALSE), NSizeOf(1),
     NGetException, NIsInst(1, 1), NCheckedCast(1, 1), NCallI(1, 1, <<>>),
     NLocAlloc(1), NLdStaticField(1), NLdFtn(1), NLdTypeToken(1), NLdLen(1),
     NLocAllocAlgined(1, 8), NLdElelemRef(1, 1), NUnboxAny(1, 1)}

\* the assembly after alloc_node of each of `nodes` in turn
RECURSIVE alloc_nodes(_, _)
alloc_nodes(asm, nodes) ==
    IF nodes = <<>> THEN asm
    ELSE alloc_nodes(alloc_node(asm, Head(nodes)).asm, Tail(nodes))

\* the assembly the front end built around the untyped node v and the
\* arithmetic node NBinOp(a, b, op)
TypingInput(v, a, b, op) ==
    Settled(alloc_nodes([SrcA EXCEPT !.nodes = <<>>, !.roots = <<>>],
                        <<NConst(<<"I32", 7>>), NConst(<<"USize", 0>>),
                          NBinOp(1, 2, "Add"), v, NBinOp(a, b, op)>>))

InitPlaceholders ==
    /\ \E v \in UntypedNodes : \E a \in 1..4, b \in 1..4 : \E op \in ArithOps :
          dest = TypingInput(v, a, b, op)
    /\ last = NoCall
    /\ hist = {}
    /\ steps = 0

SpecPlaceholders == InitPlaceholders /\ [][GetType]_vars

\* node is of a variant get_type has no rule for
Untyped(node) ==
    IF node[1] = "Const" THEN FALSE
    ELSE IF node[1] = "BinOp" THEN node[4] \notin ArithOps
    ELSE TRUE

\* node is an Add, Sub or Mul with an operand of a variant without a rule
ArithOverUntyped(node, asm) ==
    IF node[1] = "BinOp" /\ node[4] \in ArithOps
    THEN Untyped(get_node(asm, node[2])) \/ Untyped(get_node(asm, node[3]))
    ELSE FALSE

CallOps == {"Call", "CallVirt", "NewObj", "LDFtn"}

\* the last operation upgraded a legacy tree whose root is one of `ops`
UpgradedOneOf(ops) ==
    IF last.op = "from_v1" THEN last.input[1] \in ops ELSE FALSE

\* the call site of the legacy tree last upgraded
SiteOf(v1) == v1[2]

\* the method reference of the node the last upgrade returned
MethodRefOf(asm, node) == get_mref(asm, node[2])

\* C18: the upgrade of a legacy call assigns the call kind consistently with
\* the call site.  A legacy Call, and LDFtn, yields a method reference of
\* kind Static exactly when the site is static and Instance otherwise; a
\* legacy CallVirt yields kind Virtual and a legacy NewObj kind Constructor,
\* and each of these two aborts instead of producing a node when its site is
\* declared static.
C18_CallKindFollowsSite ==
    UpgradedOneOf(CallOps) =>
        IF last.input[1] \in {"Call", "LDFtn"}
        THEN last.out[1] = "Ok" =>
                MethodRefOf(dest, last.out[2])[5] =
                    (IF SiteOf(last.input)[4] THEN "Static" ELSE "Instance")
        ELSE IF SiteOf(last.input)[4]
             THEN last.out[1] = "Panic"
             ELSE last.out[1] = "Ok" =>
                     MethodRefOf(dest, last.out[2])[5] =
                         (IF last.input[1] = "CallVirt" THEN "Virtual"
                          ELSE "Constructor")

\* a legacy Call of a static site was upgraded to a call of a Static method
C18_Witness ==
    /\ UpgradedOneOf({"Call"})
    /\ SiteOf(last.input)[4]
    /\ last.out[1] = "Ok"
    /\ last.out[2][1] = "Call"
    /\ MethodRefOf(dest, last.out[2])[5] = "Static"

\* the class reference cref of asm is the upgrade of the legacy type dt:
\* same name, same module name, same value-type flag
UpgradeOfClass(asm, cref, dt) ==
    /\ get_string(asm, cref[2]) = dt[2]
    /\ IF IsSome(dt[1])
       THEN IsSome(cref[3]) /\ get_string(asm, Unwrap(cref[3])) = Unwrap(dt[1])
       ELSE cref[3] = None
    /\ cref[4] = dt[3]

\* the main-module class reference
IsMainModule(asm, cref) ==
    /\ get_string(asm, cref[2]) = "MainModule"
    /\ cref[3] = None

\* C19: default call-site owner.  When a legacy Call, CallVirt, NewObj or
\* LDFtn is upgraded, the owner of the produced method reference is the
\* assembly's main-module class-reference handle if and only if the legacy
\* call site names no class; otherwise it is the handle of the interned
\* upgrade of the named class.
C19_OwnerDefaultsToMainModule ==
    (UpgradedOneOf(CallOps) /\ last.out[1] = "Ok") =>
        /\ Issued(dest.class_refs, MethodRefOf(dest, last.out[2])[2])
        /\ (MethodRefOf(dest, last.out[2])[2] = main_module(dest).val)
              <=> (SiteOf(last.input)[1] = None)
        /\ IF SiteOf(last.input)[1] = None
           THEN IsMainModule(dest, class_ref(dest, MethodRefOf(dest, last.out[2])[2]))
           ELSE UpgradeOfClass(dest, class_ref(dest, MethodRefOf(dest, last.out[2])[2]),
                               Unwrap(SiteOf(last.input)[1]))

\* a function pointer to a module-level routine was upgraded: its owner is
\* the main module
C19_Witness ==
    /\ UpgradedOneOf({"LDFtn"})
    /\ SiteOf(last.input)[1] = None
    /\ last.out[1] = "Ok"
    /\ IsMainModule(dest, class_ref(dest, MethodRefOf(dest, last.out[2])[2]))

\* the integer width and signedness each conversion opcode names
ToU64 == {"ZeroExtendToU64", "SignExtendToU64"}
ToUSize == {"ZeroExtendToUSize", "SignExtendToUSize"}
ToISize == {"ZeroExtendToISize", "SignExtendToISize"}
NamedInt(op) ==
    CASE op \in ToU64 -> "U64"
      [] op \in ToUSize -> "USize"
      [] op \in ToISize -> "ISize"
      [] op = "SignExtendToI64" -> "I64"
      [] op = "ConvU8" -> "U8" [] op = "ConvU16" -> "U16" [] op = "ConvU32" -> "U32"
      [] op = "ConvI8" -> "I8" [] op = "ConvI16" -> "I16" [] op = "ConvI32" -> "I32"

\* the zero-extend and the unsigned Conv opcodes
ZeroExtending ==
    {"ZeroExtendToU64", "ZeroExtendToUSize", "ZeroExtendToISize",
     "ConvU8", "ConvU16", "ConvU32"}

\* the node of asm behind handle h is the upgrade of the legacy tree v1
InternedUpgrade(asm, h, v1) ==
    /\ Issued(asm.nodes, h)
    /\ from_v1(asm, v1).ok
    /\ get_node(asm, h) = from_v1(asm, v1).val

\* C20: legacy integer and float conversions become explicit casts.  Each
\* legacy zero-extend/sign-extend/Conv opcode upgrades to an IntCast whose
\* target is the integer width and signedness named by the opcode and whose
\* extend kind is ZeroExtend for the zero-extend and unsigned-Conv opcodes
\* and SignExtend for the sign-extend and signed-Conv opcodes; ConvF32 and
\* ConvF64 upgrade to a signed FloatCast of that width and ConvF64Un to an
\* unsigned F64 FloatCast; the cast's input is the interned upgrade of the
\* legacy operand.
C20_ConversionsBecomeCasts ==
    UpgradedOneOf(IntCastOps \cup FloatCastOps) =>
        /\ last.out[1] = "Ok"
        /\ InternedUpgrade(dest, last.out[2][2], last.input[2])
        /\ IF last.input[1] \in IntCastOps
           THEN /\ last.out[2][1] = "IntCast"
                /\ last.out[2][3] = NamedInt(last.input[1])
                /\ last.out[2][4] = (IF last.input[1] \in ZeroExtending
                                     THEN "ZeroExtend" ELSE "SignExtend")
           ELSE /\ last.out[2][1] = "FloatCast"
                /\ last.out[2][3] = (IF last.input[1] = "ConvF32" THEN "F32" ELSE "F64")
                /\ last.out[2][4] = (last.input[1] # "ConvF64Un")

\* the unsigned conversion to F64 was upgraded to an unsigned FloatCast
C20_Witness ==
    /\ UpgradedOneOf({"ConvF64Un"})
    /\ last.out[1] = "Ok"
    /\ last.out[2] = NFloatCast(last.out[2][2], "F64", FALSE)
    /\ get_node(dest, last.out[2][2]) = NLdArg(0)

(***************************************************************************)
(* Volatility tagging                                                      *)
(***************************************************************************)
\* the legacy opcodes that load through a pointer
V1Loads == LDIndOps \cup {"LdObj", "LDIndPtr"}

\* the handles the node arena issued during the operation that logged `log`
\* which had not been issued when it started with `before` nodes
NodesInterned(before, log) ==
    {log[i][2] : i \in {j \in 1..Len(log) : log[j][1] = "nodes" /\ log[j][2] > before}}

\* the Volatile arm on the outcome r of upgrading the operand: the same
\* load with the flag set, nothing interned beyond what the operand
\* interned, and no node interned by the step that is the load with the
\* flag clear
TaggedLoad(before, r, out, after, log) ==
    IF r.ok /\ r.val[1] = "LdInd"
    THEN /\ out = <<"Ok", NLdInd(r.val[2], r.val[3], TRUE)>>
         /\ after = Settled(r.asm)
         /\ \A h \in NodesInterned(Len(before.nodes), log) :
                get_node(after, h) # NLdInd(r.val[2], r.val[3], FALSE)
    ELSE out[1] = "Panic"

\* a step in which `last` is the record of the call that led from dest to
\* dest': NeedsDrop interns a node and leaves `last` alone
UpgradeStep == IF last' # last THEN TRUE ELSE dest' = dest

\* C21: upgrading a legacy Volatile(x) returns exactly the indirect load x
\* upgrades to with only the volatile flag changed to true; the step interns
\* no copy of that load with the flag clear; every other legacy load
\* upgrades with the flag clear; the upgrade fails when x does not upgrade
\* to an indirect load.
C21_VolatileTagsTheLoad ==
    [][UpgradeStep =>
       /\ (last'.op = "from_v1" /\ last'.input[1] = "Volatile") =>
              TaggedLoad(dest, from_v1(dest, last'.input[2]), last'.out, dest',
                         last'.log)
       /\ (last'.op = "from_v1" /\ last'.input[1] \in V1Loads
             /\ last'.out[1] = "Ok") =>
              (last'.out[2][1] = "LdInd" /\ last'.out[2][4] = FALSE)]_vars

\* a volatile load of an object was upgraded: the result is a volatile load
\* whose address operand was interned by the step
C21_Witness ==
    /\ UpgradedOneOf({"Volatile"})
    /\ last.input[2][1] = "LdObj"
    /\ last.out[1] = "Ok"
    /\ last.out[2][1] = "LdInd"
    /\ last.out[2][4] = TRUE
    /\ \E i \in 1..Len(last.log) : last.log[i] = <<"nodes", last.out[2][2]>>

\* the volatile prefix on something that is no load was refused
C21_WitnessRefused ==
    /\ UpgradedOneOf({"Volatile"})
    /\ last.input[2] = V1Arg
    /\ last.out[1] = "Panic"

(***************************************************************************)
(* Persisted form.  An assembly is written as a stream of tokens, arena by *)
(* arena and in handle order: the number of entries, then each value as    *)
(* its variant tag followed by its fields.  A handle is written as its     *)
(* number, an Option as 0 or as 1 and the value, a sequence as its length  *)
(* and its items.  Reading takes the tokens back in the same order; the    *)
(* outcome of a reading step is the value read and the tokens left.        *)
(***************************************************************************)
\* a faulty writer that numbers handles from zero
SerHandle_zero_based(h) == h - 1

\* NodeIdx(BiMapIndex) and the other handles: the number itself
SerHandle(h) == h
DeHandle(tok) == tok

\* the kinds of element that are written in place, as a value
Categories ==
    {"Type", "Const", "PtrCastRes", "Cond", "BasicBlock", "FnSig", "ClassRef",
     "FieldDesc", "StaticFieldDesc", "MethodRef", "Node", "Root"}

RECURSIVE Ser(_, _)
RECURSIVE SerElem(_, _)
RECURSIVE SerAll(_, _)
RECURSIVE SerFields(_, _)

\* the items of a sequence, each written as an element of kind `kind`
SerAll(kind, xs) ==
    IF xs = <<>> THEN <<>> ELSE SerElem(kind, Head(xs)) \o SerAll(kind, Tail(xs))

\* a sequence: its length, then its items
SerSeq(kind, xs) == <<Len(xs)>> \o SerAll(kind, xs)

\* an Option: 0, or 1 and the value
SerOption(kind, o) ==
    IF IsSome(o) THEN <<1>> \o SerElem(kind, Unwrap(o)) ELSE <<0>>

SerElem(kind, x) ==
    CASE kind = "raw" -> <<x>>
      [] kind = "str" -> <<SerHandle(x)>>
      [] kind \in HandleKinds -> <<SerHandle(x)>>
      [] kind = "optstr" -> SerOption("str", x)
      [] kind \in Categories -> Ser(kind, x)
      [] kind = "Types" -> SerSeq("Type", x)
      [] kind = "nodes" -> SerSeq("node", x)
      [] kind = "roots" -> SerSeq("root", x)
      [] kind = "optCond" -> SerOption("Cond", x)
      [] kind = "Blocks" -> SerSeq("BasicBlock", x)
      [] kind = "optBlocks" -> SerOption("Blocks", x)

\* the fields `v[i..]` of a value, of the kinds `kinds`
SerFields(kinds, fields) ==
    IF kinds = <<>> THEN <<>>
    ELSE SerElem(Head(kinds), Head(fields)) \o SerFields(Tail(kinds), Tail(fields))

\* derive(Serialize) of an enum or struct: the variant tag, then the fields
Ser(cat, v) == <<v[1]>> \o SerFields(Payload(cat, v[1]), Tail(v))

RECURSIVE De(_, _)
RECURSIVE DeElem(_, _)
RECURSIVE DeAll(_, _, _)
RECURSIVE DeFields(_, _)

\* n items of kind `kind`
DeAll(kind, n, toks) ==
    IF n = 0 THEN Ret(toks, <<>>)
    ELSE Bind(DeElem(kind, toks), LAMBDA t1, x :
         Bind(DeAll(kind, n - 1, t1), LAMBDA t2, xs :
         Ret(t2, <<x>> \o xs)))

DeSeq(kind, toks) == DeAll(kind, Head(toks), Tail(toks))

DeOption(kind, toks) ==
    IF Head(toks) = 0 THEN Ret(Tail(toks), None)
    ELSE Bind(DeElem(kind, Tail(toks)), LAMBDA t, x : Ret(t, Some(x)))

DeElem(kind, toks) ==
    CASE kind = "raw" -> Ret(Tail(toks), Head(toks))
      [] kind = "str" -> Ret(Tail(toks), DeHandle(Head(toks)))
      [] kind \in HandleKinds -> Ret(Tail(toks), DeHandle(Head(toks)))
      [] kind = "optstr" -> DeOption("str", toks)
      [] kind \in Categories -> De(kind, toks)
      [] kind = "Types" -> DeSeq("Type", toks)
      [] kind = "nodes" -> DeSeq("node", toks)
      [] kind = "roots" -> DeSeq("root", toks)
      [] kind = "optCond" -> DeOption("Cond", toks)
      [] kind = "Blocks" -> DeSeq("BasicBlock", toks)
      [] kind = "optBlocks" -> DeOption("Blocks", toks)

DeFields(kinds, toks) ==
    IF kinds = <<>> THEN Ret(toks, <<>>)
    ELSE Bind(DeElem(Head(kinds), toks), LAMBDA t1, x :
         Bind(DeFields(Tail(kinds), t1), LAMBDA t2, xs :
         Ret(t2, <<x>> \o xs)))

\* derive(Deserialize): the variant tag says which fields follow
De(cat, toks) ==
    Bind(DeFields(Payload(cat, Head(toks)), Tail(toks)), LAMBDA t, fields :
    Ret(t, <<Head(toks)>> \o fields))

\* the arenas in the order they are written, and the kind of their entries
ArenaOrder ==
    <<"strings", "types", "sigs", "class_refs", "fields", "sflds", "mrefs",
      "nodes", "roots">>
EntryKind(f) ==
    CASE f = "strings" -> "raw"
      [] f = "types" -> "Type"
      [] f = "sigs" -> "FnSig"
      [] f = "class_refs" -> "ClassRef"
      [] f = "fields" -> "FieldDesc"
      [] f = "sflds" -> "StaticFieldDesc"
      [] f = "mrefs" -> "MethodRef"
      [] f = "nodes" -> "Node"
      [] f = "roots" -> "Root"

\* one arena: the number of entries, then the entries in handle order
SerArena(f, arena) == SerSeq(EntryKind(f), arena)

RECURSIVE serialize_arenas(_, _)
serialize_arenas(asm, names) ==
    IF names = <<>> THEN <<>>
    ELSE SerArena(Head(names), asm[Head(names)]) \o serialize_arenas(asm, Tail(names))

\* the persisted form of an assembly
serialize(asm) == serialize_arenas(asm, ArenaOrder)

RECURSIVE deserialize_arenas(_, _, _)
deserialize_arenas(names, toks, asm) ==
    IF names = <<>> THEN asm
    ELSE Bind(DeSeq(EntryKind(Head(names)), toks), LAMBDA t, arena :
         deserialize_arenas(Tail(names), t, [asm EXCEPT ![Head(names)] = arena]))

\* the assembly read back from its persisted form
deserialize(toks) == deserialize_arenas(ArenaOrder, toks, EmptyAsm)

(***************************************************************************)
(* Persisting as a state machine: an assembly built by the front end has   *)
(* values linked into it and is, at any point, written out and read back   *)
(* by the next build step.                                                 *)
(***************************************************************************)
InitPersist ==
    /\ dest \in {SrcA, SrcB}
    /\ last = NoCall
    /\ hist = {}
    /\ steps = 0

\* what `last` records of a reload: the assembly that was written and the
\* tokens it was written as
Reloaded(asm, toks) ==
    [op |-> "reload", src |-> "A", input |-> asm, out |-> toks,
     repeat |-> FALSE, log |-> <<>>]

\* serialize, then deserialize; the definition maps are carried over as
\* they are
Reload ==
    /\ steps < MaxSteps
    /\ dest' = [deserialize(serialize(dest)) EXCEPT
                    !.class_defs = dest.class_defs,
                    !.method_defs = dest.method_defs]
    /\ last' = Reloaded(dest, serialize(dest))
    /\ steps' = steps + 1
    /\ UNCHANGED hist

NextPersist == TranslateNode \/ TranslateRoot \/ Reload

SpecPersist == InitPersist /\ [][NextPersist]_vars

Translating(op) == last.op = op

\* the type `out` of dest is `tag` over the translation of the inner type of
\* the source type `in`
ConstructorOver(tag, in, out) ==
    /\ out[1] = tag
    /\ Issued(dest.types, out[2])
    /\ get_type(dest, out[2]) =
          translate_type(dest, Source(last.src),
                         get_type(Source(last.src), in[2])).val

\* C23: translate_type preserves the type constructor.  A
\* managed-reference-to-T type translates to a managed-reference type over
\* the translation of T and a pointer-to-T type to a pointer type over the
\* translation of T, so a destination type is a managed reference if and
\* only if its source type was.
C23_TypeConstructorIsPreserved ==
    (Translating("Type") /\ last.input[1] \in {"Ptr", "Ref"}) =>
        /\ ConstructorOver(last.input[1], last.input, last.out)
        /\ (last.out[1] = "Ref") <=> (last.input[1] = "Ref")

\* the operations whose argument names its owner class by handle
OwnedOps == {"FieldDesc", "StaticFieldDesc", "MethodRef"}

\* C24: translate_field, translate_static_field and translate_method_ref
\* translate the owner class reference like every other nested reference.
\* The owner handle in the result equals
\* translate_class_ref(destination, source, owner): it resolves in the
\* destination to a class reference whose name and owning-module strings are
\* byte-equal to the source owner's and whose generic arguments are the
\* translated ones.
C24_OwnerIsTranslated ==
    (last.op \in OwnedOps) =>
        /\ last.out[2] = translate_class_ref(dest, Source(last.src), last.input[2]).val
        /\ DeepElem(dest, "cref", last.out[2], MaxDepth, TRUE)
              = DeepElem(Source(last.src), "cref", last.input[2], MaxDepth, TRUE)

\* the last call was translate_node on a constant of kind `kinds`
TranslatedConst(kinds) ==
    IF Translating("Node") /\ last.input[1] = "Const"
    THEN last.input[2][1] \in kinds ELSE FALSE

\* C25: translate_node copies a constant unchanged only when it holds no
\* handle.  A string constant, which carries a string handle, translates to
\* a string constant whose handle resolves in the destination to the same
\* bytes the source handle held in the source.
C25_StringConstantIsReinterned ==
    TranslatedConst({"PlatformString"}) =>
        /\ last.out[1] = "Const"
        /\ last.out[2][1] = "PlatformString"
        /\ Issued(dest.strings, last.out[2][2])
        /\ get_string(dest, last.out[2][2])
              = get_string(Source(last.src), last.input[2][2])

(***************************************************************************)
(* Control-flow roots.  translate_root takes the root by value: the        *)
(* branches and region exits below are over the nodes of the sources.      *)
(***************************************************************************)
\* pairs of block labels: (target, sub_target) of a branch, (target, source)
\* of a region exit
LabelPairs == {<<0, 3>>, <<3, 0>>}

\* the branch conditions over the first two nodes of a source, one of each
\* kind
Conds ==
    {None, Some(<<"True", 1>>), Some(<<"False", 2>>), Some(<<"Eq", 1, 2>>),
     Some(<<"Ne", 2, 1>>), Some(<<"Lt", 1, 2, "Signed">>),
     Some(<<"Gt", 2, 1, "Unsigned">>)}

TranslateBranch ==
    \E s \in SourceIds : \E l \in LabelPairs : \E cond \in Conds :
        Call("Root", s, RBranch(l[1], l[2], cond),
             translate_root(dest, Source(s), RBranch(l[1], l[2], cond)))

TranslateExit ==
    \E s \in SourceIds : \E l \in LabelPairs :
        Call("Root", s, RExitSpecialRegion(l[1], l[2]),
             translate_root(dest, Source(s), RExitSpecialRegion(l[1], l[2])))

NextRoots == TranslateBranch \/ TranslateExit \/ TranslateNode

SpecRoots == Init /\ [][NextRoots]_vars

\* the condition `out` is the condition `in` of the source with the same
\* kind and compare flavour, every operand replaced by the handle of its
\* translation
SameCond(in, out) ==
    IF IsSome(in)
    THEN /\ IsSome(out)
         /\ Len(Unwrap(out)) = Len(Unwrap(in))
         /\ Unwrap(out)[1] = Unwrap(in)[1]
         /\ \A k \in 2..Len(Unwrap(in)) :
               IF Payload("Cond", Unwrap(in)[1])[k - 1] = "node"
               THEN Unwrap(out)[k] =
                       node_then_alloc(dest, Source(last.src), Unwrap(in)[k]).val
               ELSE Unwrap(out)[k] = Unwrap(in)[k]
    ELSE out = None

\* C26: translate_root leaves control-flow labels untouched.  For a branch
\* root the target and sub-target labels and the comparison kind (True,
\* False, Eq, Ne, Lt or Gt with its compare flavour, or unconditional) are
\* identical in the result, and a region-exit root is returned with
\* identical target and source labels; only node operands are replaced by
\* their translated handles.
C26_LabelsAreUntouched ==
    /\ (Translating("Root") /\ last.input[1] = "Branch") =>
          /\ last.out[1] = "Branch"
          /\ last.out[2] = last.input[2]
          /\ last.out[3] = last.input[3]
          /\ SameCond(last.input[4], last.out[4])
    /\ (Translating("Root") /\ last.input[1] = "ExitSpecialRegion") =>
          last.out = last.input

\* a conditional branch between two different labels was translated into a
\* destination that numbers the operands differently
C26_Witness ==
    /\ Translating("Root")
    /\ last.input[1] = "Branch"
    /\ last.input[2] # last.input[3]
    /\ IsSome(last.input[4])
    /\ Unwrap(last.input[4])[1] = "Gt"
    /\ Unwrap(last.out[4])[2] # Unwrap(last.input[4])[2]
    /\ last.out[2] = last.input[2]

(***************************************************************************)
(* Class definitions and the definitions the destination holds             *)
(***************************************************************************)
\* a step in which `last` is the record of the call that led from dest to
\* dest': DefineClass changes the destination and leaves `last` alone
DefStep == IF last' # last THEN TRUE ELSE dest' = dest

\* the owner of the first method the class definition `def` of source s lists
FirstOwner(s, def) == method_def(Source(s), Head(def[8]))[3]

\* the call recorded by `call`, which left `after`, stopped where it resolved
\* the owner of the first method: the resolution of the owner is the last
\* thing logged, and no method reference was interned
FailedAtFirstOwner(after, call) ==
    /\ call.out[1] = "Panic"
    /\ call.log[Len(call.log)] =
          <<"class_ref_to_def",
            translate_class_ref(after, Source(call.src),
                                FirstOwner(call.src, call.input)).val>>
    /\ \A i \in 1..Len(call.log) : call.log[i][1] # "mrefs"

\* C27: translate_class_def never registers the class definition it is
\* translating in the destination.  Translating a class definition that
\* lists at least one method into a destination that does not already hold
\* a definition for that class fails at the first method's owner
\* resolution; a class definition with an empty method list always
\* translates successfully.
C27_ClassDefIsNotRegistered ==
    [][(DefStep /\ last'.op = "ClassDef") =>
          /\ dest'.class_defs = dest.class_defs
          /\ IF last'.input[8] = <<>>
             THEN last'.out[1] = "Ok"
             ELSE class_ref_to_def(dest,
                      translate_class_ref(dest', Source(last'.src),
                          FirstOwner(last'.src, last'.input)).val) = None
                  => FailedAtFirstOwner(dest', last')]_vars

\* a class definition that lists a method was refused by a destination that
\* holds no definition for the class
C27_Witness ==
    /\ last.op = "ClassDef"
    /\ last.input[8] # <<>>
    /\ last.out[1] = "Panic"
    /\ dest.class_defs = {}
    /\ Len(dest.class_refs) > 0

\* a class definition without methods was translated
C27_WitnessNoMethods ==
    /\ last.op = "ClassDef"
    /\ last.input[8] = <<>>
    /\ last.out[1] = "Ok"

\* a class definition that lists a method was translated into a destination
\* that held a definition for the class
C27_WitnessDefined ==
    /\ last.op = "ClassDef"
    /\ last.input[8] # <<>>
    /\ last.out[1] = "Ok"

(***************************************************************************)
(* The number of translate_* calls one translation makes, against the size *)
(* of the value translated.                                                *)
(***************************************************************************)
RECURSIVE SizeOfValue(_, _, _, _)
RECURSIVE SizeOfElem(_, _, _, _)
RECURSIVE SizeOfAll(_, _, _, _)
RECURSIVE SizeOfFields(_, _, _, _)

\* the items of a sequence, each an element of kind `kind`
SizeOfAll(asm, kind, xs, follow) ==
    IF xs = <<>> THEN 0
    ELSE SizeOfElem(asm, kind, Head(xs), follow) + SizeOfAll(asm, kind, Tail(xs), follow)

\* a handle counts as the value it names when handles are followed, and as
\* one reference otherwise
SizeOfElem(asm, kind, x, follow) ==
    CASE kind \in {"raw", "str", "optstr"} -> 0
      [] kind \in HandleKinds ->
            IF follow
            THEN SizeOfValue(asm, CatOf(kind), ArenaOf(asm, kind)[x], follow)
            ELSE 1
      [] kind \in Categories -> SizeOfValue(asm, kind, x, follow)
      [] kind = "Types" -> SizeOfAll(asm, "Type", x, follow)
      [] kind = "nodes" -> SizeOfAll(asm, "node", x, follow)
      [] kind = "roots" -> SizeOfAll(asm, "root", x, follow)
      [] kind = "optCond" -> SizeOfAll(asm, "Cond", x, follow)
      [] kind = "optBlocks" ->
            IF IsSome(x) THEN SizeOfAll(asm, "BasicBlock", Unwrap(x), follow) ELSE 0

\* the fields of a value, of the kinds `kinds`
SizeOfFields(asm, kinds, fields, follow) ==
    IF kinds = <<>> THEN 0
    ELSE SizeOfElem(asm, Head(kinds), Head(fields), follow)
         + SizeOfFields(asm, Tail(kinds), Tail(fields), follow)

\* the value itself, and its payload
SizeOfValue(asm, cat, v, follow) ==
    1 + SizeOfFields(asm, Payload(cat, v[1]), Tail(v), follow)

\* the size of the tree the value unfolds to: a value counts once for every
\* reference that leads to it
UnfoldedSize(asm, cat, v) == SizeOfValue(asm, cat, v, TRUE)

RECURSIVE RefsOfValue(_, _)
RECURSIVE RefsOfElem(_, _)

\* the handles <<kind, handle>> a value holds, those of the values it holds
\* in place included
RefsOfElem(kind, x) ==
    CASE kind \in {"raw", "str", "optstr"} -> {}
      [] kind \in HandleKinds -> {<<kind, x>>}
      [] kind \in Categories -> RefsOfValue(kind, x)
      [] kind = "Types" -> UNION {RefsOfValue("Type", x[i]) : i \in 1..Len(x)}
      [] kind = "nodes" -> {<<"node", x[i]>> : i \in 1..Len(x)}
      [] kind = "roots" -> {<<"root", x[i]>> : i \in 1..Len(x)}
      [] kind = "optCond" -> UNION {RefsOfValue("Cond", x[i]) : i \in 1..Len(x)}
      [] kind = "optBlocks" ->
            IF IsSome(x)
            THEN UNION {RefsOfValue("BasicBlock", Unwrap(x)[i]) : i \in 1..Len(Unwrap(x))}
            ELSE {}

RefsOfValue(cat, v) ==
    UNION {RefsOfElem(Payload(cat, v[1])[i], v[i + 1]) :
               i \in 1..Len(Payload(cat, v[1]))}

\* the handles reachable from the handles `refs` in asm
RECURSIVE Reachable(_, _)
Reachable(asm, refs) ==
    LET more == refs \cup UNION {RefsOfValue(CatOf(r[1]), ArenaOf(asm, r[1])[r[2]]) :
                                     r \in refs}
    IN IF more = refs THEN refs ELSE Reachable(asm, more)

RECURSIVE SumOfSizes(_, _)
SumOfSizes(asm, refs) ==
    IF refs = {} THEN 0
    ELSE LET r == CHOOSE x \in refs : TRUE
         IN SizeOfValue(asm, CatOf(r[1]), ArenaOf(asm, r[1])[r[2]], FALSE)
            + SumOfSizes(asm, refs \ {r})

\* the size of the sub-graph of asm reachable from the value: the value and
\* every value reachable from it once, each with the references it holds
SubGraphSize(asm, cat, v) ==
    SizeOfValue(asm, cat, v, FALSE) + SumOfSizes(asm, Reachable(asm, RefsOfValue(cat, v)))

\* the category of the value a translate_* operation recorded as `op` takes
ValueOps == {"Type", "FnSig", "FieldDesc", "StaticFieldDesc", "MethodRef", "Node",
             "Root", "BasicBlock"}

\* translate_node and translate_root on the values of the module with shared
\* operands
TranslateShared ==
    \/ \E i \in 1..Len(SrcShared.nodes) :
          Call("Node", "S", get_node(SrcShared, i),
               translate_node(dest, SrcShared, get_node(SrcShared, i)))
    \/ \E i \in 1..Len(SrcShared.roots) :
          Call("Root", "S", get_root(SrcShared, i),
               translate_root(dest, SrcShared, get_root(SrcShared, i)))

NextCalls ==
    \/ TranslateShared
    \/ TranslateMethodRef
    \/ TranslateNode
    \/ TranslateRoot
    \/ TranslateBlock

SpecCalls == Init /\ [][NextCalls]_vars

\* C28 as stated: every translate_* call returns after a number of recursive
\* calls bounded by the size of the source sub-graph reachable from the
\* value.
C28_CallsBoundedBySubGraph ==
    (last.op \in ValueOps) =>
        last.calls <= SubGraphSize(Source(last.src), last.op, last.input)

\* C28: translation terminates.  For any source value whose node graph is
\* acyclic and whose handler nesting is a finite tree, every translate_*
\* call returns after a number of recursive calls bounded by the size of the
\* tree the value unfolds to, a value reachable along several references
\* being translated once for each of them.
C28_CallsBoundedByUnfolding ==
    (last.op \in ValueOps) =>
        /\ last.calls >= 1
        /\ last.calls <= UnfoldedSize(Source(last.src), last.op, last.input)

\* an expression whose operands are shared at every level was translated: it
\* took more calls than the source holds values reachable from it
C28_Witness ==
    /\ last.op = "Node"
    /\ last.src = "S"
    /\ last.input = NBinOp(4, 4, "Sub")
    /\ last.calls = 31
    /\ Len(dest.nodes) >= 4

(***************************************************************************)
(* Aggregates: handle_aggregate and aggregate_adt build the legacy tree    *)
(* that initialises an aggregate value at a target place.  An operand is   *)
(* given by what the front end answers about it: whether it is             *)
(* uninitialized (is_uninit), the type it is lowered to (type_from_cache)  *)
(* and the tree that computes it (handle_operand).  A place is a local:    *)
(* reading it is LDLoc, its address LDLocA.                                *)
(***************************************************************************)
\* operands of one aggregate
MaxFields == 3

V1Void == <<"Void">>

MirOperands == [uninit : BOOLEAN, ty : {V1Void, V1I32}, node : {V1Seven, V1Arg}]

\* let values = value_index.iter().enumerate().map(|operand| (index, handle_operand(operand)))
values_of(value_index) ==
    [i \in 1..Len(value_index) |-> <<i - 1, value_index[i].node>>]

\* the fields a loop leaves out, made to assign every field
tuple_sub_trees_with_void(tuple_getter, types, values) ==
    [i \in 1..Len(values) |->
        <<"SetField", tuple_getter, values[i][2],
          <<"Tuple", types[values[i][1] + 1], <<"Item", values[i][1] + 1>>>>>>]

RECURSIVE tuple_sub_trees(_, _, _)

\* AggregateKind::Tuple: for field in &values { if types[field.0] == Void
\* { continue; } sub_trees.push(SetField Item{field.0 + 1}) }
tuple_sub_trees(tuple_getter, types, values) ==
    IF values = <<>> THEN <<>>
    ELSE LET field == Head(values)
         IN  (IF types[field[1] + 1] = V1Void THEN <<>>
              ELSE <<<<"SetField", tuple_getter, field[2],
                       <<"Tuple", types[field[1] + 1], <<"Item", field[1] + 1>>>>>>>>)
             \o tuple_sub_trees(tuple_getter, types, Tail(values))

RECURSIVE closure_sub_trees(_, _, _)

\* AggregateKind::Closure: for (index, value) in value_index.iter_enumerated()
\* { if field_ty == Void { continue; } sub_trees.push(SetField f_{index}) }
closure_sub_trees(closure_getter, value_index, index) ==
    IF value_index = <<>> THEN <<>>
    ELSE LET value == Head(value_index)
         IN  (IF value.ty = V1Void THEN <<>>
              ELSE <<<<"SetField", closure_getter, value.node,
                       <<"Closure", value.ty, <<"f_", index>>>>>>>>)
             \o closure_sub_trees(closure_getter, Tail(value_index), index + 1)

RECURSIVE struct_sub_trees(_, _, _)

\* AdtKind::Struct: for field in fields { field_def = all_fields().nth(field.0);
\* if field_type == Void { continue; } sub_trees.push(SetField) }; a field
\* index without a definition is the panic `Could not find field!`
struct_sub_trees(obj_getter, all_fields, fields) ==
    IF fields = <<>> THEN <<>>
    ELSE LET field == Head(fields)
             rest == struct_sub_trees(obj_getter, all_fields, Tail(fields))
         IN  IF field[1] + 1 > Len(all_fields) THEN <<"Panic", "Could not find field!">>
             ELSE IF rest # <<>> /\ rest[1] = "Panic" THEN rest
             ELSE (IF all_fields[field[1] + 1] = V1Void THEN <<>>
                   ELSE <<<<"SetField", obj_getter, field[2],
                            <<"Adt", all_fields[field[1] + 1], <<"field", field[1]>>>>>>>>)
                  \o rest

RECURSIVE enum_sub_trees(_, _, _, _)

\* AdtKind::Enum: for (field, field_value) in enum_variant.fields.iter().zip(fields.iter())
\* { if field_type == Void { continue; } sub_trees.push(SetField {variant}_{fname}) }
enum_sub_trees(variant_address, variant_idx, variant_fields, fields) ==
    IF variant_fields = <<>> \/ fields = <<>> THEN <<>>
    ELSE LET field == Head(variant_fields)
             field_value == Head(fields)
         IN  (IF field = V1Void THEN <<>>
              ELSE <<<<"SetField", variant_address, field_value[2],
                       <<"Adt", field, <<"variant", variant_idx, field_value[1]>>>>>>>>)
             \o enum_sub_trees(variant_address, variant_idx, Tail(variant_fields),
                               Tail(fields))

\* aggregate_adt(ctx, target_location, adt, .., variant_idx, fields, active_field);
\* adt is the kind of the type, the lowered types of its fields (of the
\* variant built, for an enum) and whether its layout has a tag
aggregate_adt(target_location, adt, variant_idx, fields, active_field) ==
    LET place_get == <<"LDLoc", target_location>>
        place_adress == <<"LDLocA", target_location>>
    IN  CASE adt.kind = "Struct" ->
                LET sub == struct_sub_trees(place_adress, adt.fields, fields)
                IN  IF sub # <<>> /\ sub[1] = "Panic" THEN sub
                    ELSE <<"SubTrees", sub, place_get>>
          [] adt.kind = "Enum" ->
                <<"SubTrees",
                  enum_sub_trees(place_adress, variant_idx, adt.fields, fields)
                  \o (IF adt.tagged
                      THEN <<<<"set_discr", variant_idx, place_adress>>>>
                      ELSE <<>>),
                  place_get>>
          [] adt.kind = "Union" ->
                IF active_field = None THEN <<"Panic", "unwrap on None">>
                ELSE IF Len(fields) # 1 THEN <<"Panic", "assert_eq fields.len() 1">>
                ELSE IF active_field[1] + 1 > Len(adt.fields)
                     THEN <<"Panic", "Could not find field!">>
                ELSE IF adt.fields[active_field[1] + 1] = V1Void THEN place_get
                ELSE <<"SubTrees",
                       <<<<"SetField", place_adress, fields[1][2],
                           <<"Adt", adt.fields[active_field[1] + 1],
                             <<"field", active_field[1]>>>>>>>>,
                       place_get>>

\* handle_aggregate(ctx, target_location, aggregate_kind, value_index)
handle_aggregate(target_location, aggregate_kind, value_index) ==
    LET values == values_of(value_index)
        place_get == <<"LDLoc", target_location>>
        place_adress == <<"LDLocA", target_location>>
    IN  CASE aggregate_kind[1] = "Adt" ->
                aggregate_adt(target_location, aggregate_kind[2], aggregate_kind[3],
                              values, aggregate_kind[4])
          [] aggregate_kind[1] = "Array" ->
                IF value_index = <<>> THEN <<"Panic", "index out of bounds">>
                ELSE IF value_index[1].uninit THEN place_get
                ELSE handle_aggregate_Array(place_adress,
                                            [i \in 1..Len(values) |-> values[i][2]],
                                            place_get)
          [] aggregate_kind[1] = "Tuple" ->
                <<"SubTrees",
                  tuple_sub_trees(place_adress,
                                  [i \in 1..Len(value_index) |-> value_index[i].ty],
                                  values),
                  place_get>>
          [] aggregate_kind[1] = "Closure" ->
                <<"SubTrees", closure_sub_trees(place_adress, value_index, 0), place_get>>
          [] OTHER -> <<"Panic", "not yet implemented: Unsuported aggregate kind">>

(***************************************************************************)
(* The front end as a state machine: a statement that builds an aggregate  *)
(* is waiting in `last` and is handed to handle_aggregate, which leaves    *)
(* the tree returned in `last`.  The statements are well typed: the        *)
(* operands of an array have one element type, the operands of a struct or *)
(* of an enum variant have the types of its fields, a union has exactly    *)
(* its active field.                                                       *)
(***************************************************************************)
\* sequences of at most n members of S
SeqUpTo(S, n) == UNION {[1..k -> S] : k \in 0..n}

Targets == {1, 2}

\* the fields of the union type of the statements
UnionFields == <<V1I32, V1Void>>

TypesOf(value_index) == [i \in 1..Len(value_index) |-> value_index[i].ty]

ArrayStatements ==
    {<<<<"Array">>, ops>> :
        ops \in {o \in SeqUpTo(MirOperands, MaxFields) : \A i \in 1..Len(o) : o[i].ty = V1I32}}

ProductStatements ==
    {<<k, ops>> : k \in {<<"Tuple">>, <<"Closure">>}, ops \in SeqUpTo(MirOperands, MaxFields)}

StructStatements ==
    {<<<<"Adt", [kind |-> "Struct", fields |-> TypesOf(ops), tagged |-> FALSE], 0, None>>,
       ops>> : ops \in SeqUpTo(MirOperands, MaxFields)}

EnumStatements ==
    {<<<<"Adt", [kind |-> "Enum", fields |-> TypesOf(x[1]), tagged |-> x[2]], x[3], None>>,
       x[1]>> : x \in SeqUpTo(MirOperands, MaxFields) \X BOOLEAN \X {0, 1}}

UnionStatements ==
    {<<<<"Adt", [kind |-> "Union", fields |-> UnionFields, tagged |-> FALSE], 0,
         Some(x[2])>>, <<x[1]>>>> :
        x \in {y \in MirOperands \X {0, 1} : y[1].ty = UnionFields[y[2] + 1]}}

Statements ==
    ArrayStatements \cup ProductStatements \cup StructStatements
    \cup EnumStatements \cup UnionStatements

\* a statement waiting to be lowered
Waiting(target, stmt) ==
    [op |-> "statement", src |-> "A", target |-> target, kind |-> stmt[1],
     input |-> stmt[2], out |-> <<>>, repeat |-> FALSE, log |-> <<>>]

InitAggregate ==
    /\ dest = EmptyAsm
    /\ \E target \in Targets, stmt \in Statements : last = Waiting(target, stmt)
    /\ hist = {}
    /\ steps = 0

\* handle_aggregate(ctx, target_location, aggregate_kind, value_index)
HandleAggregate ==
    /\ last.op = "statement"
    /\ last' = [last EXCEPT !.op = "handle_aggregate",
                            !.out = handle_aggregate(last.target, last.kind, last.input)]
    /\ steps' = steps + 1
    /\ UNCHANGED <<dest, hist>>

SpecAggregate == InitAggregate /\ [][HandleAggregate]_vars

\* the set_Item calls of a tree, as <<index argument, value argument>>
SetItems(out) ==
    IF out[1] # "SubTrees" THEN <<>>
    ELSE LET calls == SelectSeq(out[2], LAMBDA r : r[1] = "Call" /\ r[2][2] = "set_Item")
         IN  [k \in 1..Len(calls) |-> <<calls[k][3][2], calls[k][3][3]>>]

\* C29: an array aggregate is returned as the bare read of the target place
\* only if every element operand is uninitialized; if any element is
\* initialized the tree holds exactly one set_Item call per element, in
\* ascending index order, the index argument being the element's position.
C29_ArrayInitSkippedOnlyWhenAllUninit ==
    (last.op = "handle_aggregate" /\ last.kind = <<"Array">> /\ last.input # <<>>) =>
        /\ (last.out = <<"LDLoc", last.target>>) =>
                \A i \in 1..Len(last.input) : last.input[i].uninit
        /\ (\E i \in 1..Len(last.input) : ~last.input[i].uninit) =>
                SetItems(last.out) =
                    [i \in 1..Len(last.input) |->
                        <<<<"ZeroExtendToUSize", <<"LdcU64", i - 1>>>>, last.input[i].node>>]

\* the array whose first element is initialized does get one set_Item per
\* element
C29_FirstInitialized ==
    /\ last.op = "handle_aggregate"
    /\ last.kind = <<"Array">>
    /\ Len(last.input) = 3
    /\ ~last.input[1].uninit
    /\ Len(SetItems(last.out)) = 3

\* the kinds of aggregate that are built field by field
FieldKinds == {"Tuple", "Closure", "Adt"}

\* the lowered types of the fields a statement gives values to
FieldTypes(kind, value_index) ==
    IF kind[1] = "Adt" /\ kind[2].kind = "Union"
    THEN <<kind[2].fields[kind[4][1] + 1]>>
    ELSE TypesOf(value_index)

\* the SetField roots of a tree
Assignments(out) ==
    IF out[1] # "SubTrees" THEN <<>>
    ELSE SelectSeq(out[2], LAMBDA r : r[1] = "SetField")

\* the node a tree ends with
FinalRead(out) == IF out[1] = "SubTrees" THEN out[3] ELSE out

\* the positions of the fields whose lowered type is not Void, in field order
Assigned(types) == SelectSeq([i \in 1..Len(types) |-> i], LAMBDA i : types[i] # V1Void)

\* C30: for struct, enum, union, tuple and closure aggregates the tree holds
\* no SetField for a field whose lowered type is Void and exactly one
\* SetField, at the target's address and carrying that field's own value
\* operand, for every other field, in field order; the tree ends with a read
\* of the target place.
C30_VoidFieldsAreNeverAssigned ==
    (last.op = "handle_aggregate" /\ last.kind[1] \in FieldKinds) =>
        LET types == FieldTypes(last.kind, last.input)
            kept == Assigned(types)
            sets == Assignments(last.out)
        IN  /\ last.out[1] # "Panic"
            /\ Len(sets) = Len(kept)
            /\ \A k \in 1..Len(sets) :
                    /\ sets[k][2] = <<"LDLocA", last.target>>
                    /\ sets[k][3] = last.input[kept[k]].node
                    /\ sets[k][4][2] = types[kept[k]]
                    /\ sets[k][4][2] # V1Void
            /\ \A i, j \in 1..Len(sets) : i # j => sets[i][4][3] # sets[j][4][3]
            /\ FinalRead(last.out) = <<"LDLoc", last.target>>

\* a tuple with a Void field between two others: two assignments
C30_Witness ==
    /\ last.op = "handle_aggregate"
    /\ last.kind = <<"Tuple">>
    /\ TypesOf(last.input) = <<V1I32, V1Void, V1I32>>
    /\ last.input[1].node # last.input[3].node
    /\ Len(Assignments(last.out)) = 2

\* a union whose active field is Void: the bare read of the target
C30_WitnessUnion ==
    /\ last.op = "handle_aggregate"
    /\ last.kind[1] = "Adt"
    /\ last.kind[2].kind = "Union"
    /\ last.input[1].ty = V1Void
    /\ last.out = <<"LDLoc", last.target>>

====
